---------------------------- MODULE Spec2Model ----------------------------
(***************************************************************************)
(* A model of django-anymail's send path: backend construction (the        *)
(* send-defaults resolver and the credential checks), the attribute        *)
(* pipeline of BasePayload.__init__, and the send_messages / _send         *)
(* orchestration of AnymailBaseBackend over the requests session of        *)
(* AnymailRequestsBackend.                                                 *)
(*                                                                         *)
(* One state machine (Next) is checked from several initial conditions:    *)
(*   Spec         batches of up to MaxBatch sample messages                *)
(*   SpecSend     one message, the ESP answering with any per-recipient    *)
(*                status of the vocabulary                                 *)
(*   SpecPayload  one message and layered defaults that vary up to         *)
(*                MaxFields fields of the attribute table                  *)
(*   SpecConfig   Mailgun and SendGrid under every credential setting      *)
(***************************************************************************)
EXTENDS Integers, Sequences, FiniteSets, TLC

VARIABLES
    settings,                     \* Django settings read by the backend constructor
    esp_name,                     \* backend.esp_name: which adapter class is configured
    fail_silently,                \* backend.fail_silently
    ignore_unsupported_features,  \* backend.ignore_unsupported_features
    ignore_recipient_status,      \* backend.ignore_recipient_status
    send_defaults,                \* backend.send_defaults (set by the constructor)
    session,                      \* backend.session: 0 is None, n > 0 the n-th Session
    batch,                        \* the email_messages handed to send_messages
    anymail_status,               \* message.anymail_status of each message of the batch
    pc,                           \* position of the caller / send_messages / _send
    idx,                          \* index in batch of the message being attempted
    num_sent,                     \* send_messages' local num_sent
    created_session,              \* send_messages' local created_session
    payload,                      \* _send's local payload
    response,                     \* _send's local response
    escaped,                      \* the exception that left the call, "none" if none
    log,                          \* history: what happened for each message
    calls,                        \* history: number of open() and close() calls made by send_messages
    detail                        \* whether the ESP answers from the full status vocabulary

vars == <<settings, esp_name, fail_silently, ignore_unsupported_features,
          ignore_recipient_status, send_defaults, session, batch, anymail_status,
          pc, idx, num_sent, created_session, payload, response, escaped, log,
          calls, detail>>

-----------------------------------------------------------------------------
(* Bounds of the model *)

\* longest batch handed to send_messages
MaxBatch == 3

\* number of attribute-table fields the message and the defaults vary in SpecPayload
MaxFields == 1

-----------------------------------------------------------------------------
(* Python values.  Every value carries its type tag, as a Python object    *)
(* does; UNSET is the sentinel of anymail.utils and None is Python's None. *)

UNSET == [t |-> "UNSET"]

None == [t |-> "None"]

Str(s) == [t |-> "str", s |-> s]

Bool(b) == [t |-> "bool", b |-> b]

List(items) == [t |-> "list", items |-> items]

Dict(m) == [t |-> "dict", m |-> m]

\* an address string "name <mailbox>" (name possibly empty)
Addr(name, mailbox) == [t |-> "address", name |-> name, mailbox |-> mailbox]

\* dict.update: d with the entries of e laid over it
DictUpdate(d, e) ==
    [x \in (DOMAIN d) \cup (DOMAIN e) |-> IF x \in DOMAIN e THEN e[x] ELSE d[x]]

\* dict.get(key, default)
DictGet(d, key, default) == IF key \in DOMAIN d THEN d[key] ELSE default


-----------------------------------------------------------------------------
(* anymail.utils: the combiners and the address / attachment records       *)

\* last(default, value): the message's value if present, else the default
last(default_value, value) ==
    IF value # UNSET THEN value ELSE default_value

\* combine(default, value): sequences concatenated default first, maps merged
\* with the later argument winning, a lone argument returned as it is
combine(default_value, value) ==
    IF value = UNSET THEN default_value
    ELSE IF default_value = UNSET THEN value
    ELSE IF value.t = "dict" THEN Dict(DictUpdate(default_value.m, value.m))
    ELSE List(default_value.items \o value.items)

\* ParsedEmail(address, encoding): display name and mailbox of an address
ParsedEmail(address) ==
    [t |-> "ParsedEmail", name |-> address.name, email |-> address.mailbox]

\* Attachment(attachment, encoding): the normalized attachment
Attachment(attachment) ==
    [t |-> "Attachment", name |-> attachment.name, content |-> attachment.content,
     inline |-> FALSE]

-----------------------------------------------------------------------------
(* BasePayload: the attribute table                                        *)

base_message_attrs ==
    << <<"from_email",    "last",    "parsed_email">>,
       <<"to",            "combine", "parsed_emails">>,
       <<"cc",            "combine", "parsed_emails">>,
       <<"bcc",           "combine", "parsed_emails">>,
       <<"subject",       "last",    "None">>,
       <<"reply_to",      "combine", "parsed_emails">>,
       <<"extra_headers", "combine", "None">>,
       <<"body",          "last",    "None">>,
       <<"alternatives",  "combine", "None">>,
       <<"attachments",   "combine", "prepped_attachments">> >>

anymail_message_attrs ==
    << <<"metadata",          "combine", "None">>,
       <<"send_at",           "last",    "aware_datetime">>,
       <<"tags",              "combine", "None">>,
       <<"track_clicks",      "last",    "None">>,
       <<"track_opens",       "last",    "None">>,
       <<"template_id",       "last",    "None">>,
       <<"merge_data",        "combine", "None">>,
       <<"merge_global_data", "combine", "None">>,
       <<"esp_extra",         "combine", "None">> >>

esp_message_attrs == << >>

message_attrs == base_message_attrs \o anymail_message_attrs \o esp_message_attrs

AttrNames == {message_attrs[n][1] : n \in 1..Len(message_attrs)}

-----------------------------------------------------------------------------
(* BasePayload: the converters                                             *)

\* django.utils.timezone.get_current_timezone()
CurrentTimezone == "local"

parsed_email(address) == ParsedEmail(address)

parsed_emails(addresses) ==
    List([n \in 1..Len(addresses.items) |-> ParsedEmail(addresses.items[n])])

prepped_attachments(attachments) ==
    List([n \in 1..Len(attachments.items) |-> Attachment(attachments.items[n])])

DaySeconds == 24 * 60 * 60

\* a converter that takes a value without zone for UTC
aware_datetime_naive_as_utc(value) ==
    CASE value.t = "datetime" ->
           IF value.tz = "naive" THEN [value EXCEPT !.tz = "utc"] ELSE value
      [] value.t = "date" ->
           [t |-> "datetime", day |-> value.day, sec |-> 0, tz |-> "utc"]
      [] value.t = "int" ->
           [t |-> "datetime", day |-> value.n \div DaySeconds,
            sec |-> value.n % DaySeconds, tz |-> "utc"]
      [] value.t = "float" ->
           [t |-> "datetime", day |-> value.n \div DaySeconds,
            sec |-> value.n % DaySeconds, us |-> value.us, tz |-> "utc"]
      [] OTHER -> value

\* A datetime is [day, sec, tz]: day and second of day on its own clock, and
\* tz = "naive" when it carries no zone; a date is [day]; an int is a POSIX
\* timestamp in seconds, a float one of n seconds and us microseconds.
aware_datetime(value) ==
    LET dt == IF value.t = "datetime" THEN value
              ELSE IF value.t = "date"
                   THEN [t |-> "datetime", day |-> value.day, sec |-> 0, tz |-> "naive"]
              ELSE IF value.t = "int"
                   THEN [t |-> "datetime", day |-> value.n \div DaySeconds,
                         sec |-> value.n % DaySeconds, tz |-> "utc"]
                   ELSE [t |-> "datetime", day |-> value.n \div DaySeconds,
                         sec |-> value.n % DaySeconds, us |-> value.us, tz |-> "utc"]
    IN  IF value.t \notin {"datetime", "date", "int", "float"} THEN value
        ELSE IF dt.tz = "naive" THEN [dt EXCEPT !.tz = CurrentTimezone]
        ELSE dt

Convert(converter, value) ==
    CASE converter = "None"                -> value
      [] converter = "parsed_email"        -> parsed_email(value)
      [] converter = "parsed_emails"       -> parsed_emails(value)
      [] converter = "prepped_attachments" -> prepped_attachments(value)
      [] converter = "aware_datetime"      -> aware_datetime(value)


-----------------------------------------------------------------------------
(* The payload classes.  A payload is the record                           *)
(*   calls           the setter calls made by BasePayload.__init__, in     *)
(*                   order, each with the value handed over                *)
(*   all_recipients  payload.all_recipients                                *)
(*   to_list         SendGridPayload.to_list (late-bound 'to')             *)
(*   has_html        "html" in payload.data                                *)
(*   data, files     payload.data and payload.files                        *)
(*   smtpapi         SendGridPayload.smtpapi                               *)
(*   message_id      SendGridPayload.message_id                            *)
(*   dropped         the features reported unsupported and ignored         *)
(*   error           the exception raised while building, "none" if none   *)
(*   sender_domain   MailgunPayload.sender_domain                          *)
(*   template_data, template_global_data                                   *)
(*                   MailgunPayload.template_data / template_global_data   *)
(*   to_emails       MailgunPayload.to_emails                              *)
(*   owner           for each attribute, whose object the setter was given *)
(*                   ("message", "defaults" or "new")                      *)
(*   writes          the in-place changes made to objects handed to setters*)

\* the setters BasePayload routes to unsupported_feature
BaseUnsupported ==
    [set_reply_to          |-> "reply_to",
     set_extra_headers     |-> "extra_headers",
     set_metadata          |-> "metadata",
     set_send_at           |-> "send_at",
     set_tags              |-> "tags",
     set_track_clicks      |-> "track_clicks",
     set_track_opens       |-> "track_opens",
     set_template_id       |-> "template_id",
     set_merge_data        |-> "merge_data",
     set_merge_global_data |-> "merge_global_data",
     set_esp_extra         |-> "esp_extra"]

\* the setters of BaseUnsupported that an adapter's payload class overrides
Overridden(esp) ==
    CASE esp = "Mailgun"  -> {"set_reply_to", "set_extra_headers", "set_metadata",
                              "set_send_at", "set_tags", "set_track_clicks",
                              "set_track_opens", "set_esp_extra"}
      [] esp = "SendGrid" -> {"set_reply_to", "set_extra_headers", "set_metadata",
                              "set_send_at", "set_tags", "set_track_clicks",
                              "set_track_opens", "set_template_id", "set_esp_extra"}
      [] OTHER            -> {}

init_payload ==
    [calls |-> <<>>, all_recipients |-> <<>>, to_list |-> <<>>, has_html |-> FALSE,
     dropped |-> <<>>, error |-> "none", data |-> << >>, files |-> << >>,
     smtpapi |-> << >>, message_id |-> None,
     sender_domain |-> None, template_data |-> None, template_global_data |-> None,
     to_emails |-> <<>>, owner |-> << >>, writes |-> <<>>]

\* <Payload>.init_payload: SendGrid starts with an empty headers map
init_payload_for(backend) ==
    IF backend.esp_name = "SendGrid"
    THEN [init_payload EXCEPT !.data = [headers |-> << >>]]
    ELSE init_payload

\* self.data[key] = value
Put(p, key, value) == [p EXCEPT !.data = DictUpdate(@, key :> value)]

\* self.smtpapi[key] = value
PutSmtpapi(p, key, value) == [p EXCEPT !.smtpapi = DictUpdate(@, key :> value)]

\* the map m with every key prefixed ("h:%s" % key, "v:%s" % key)
Prefixed(prefix, m) ==
    [k \in {prefix \o x : x \in DOMAIN m} |-> m[CHOOSE x \in DOMAIN m : prefix \o x = k]]

\* the map m without the key k
Without(m, k) == [x \in (DOMAIN m) \ {k} |-> m[x]]

\* BasePayload.unsupported_feature
\* a report that drops the feature whatever the setting is
unsupported_feature_dropped(p, feature, backend) ==
    [p EXCEPT !.dropped = Append(@, feature)]

\* BasePayload.unsupported_feature
unsupported_feature(p, feature, backend) ==
    IF ~backend.ignore_unsupported_features
    THEN [p EXCEPT !.error = "AnymailUnsupportedFeature"]
    ELSE [p EXCEPT !.dropped = Append(@, feature)]

\* set_recipients of the payload classes: nothing is stored for an empty list;
\* SendGrid stores mailboxes and names apart (" " for an empty name); Mailgun
\* keeps the mailboxes of 'to' for populate_recipient_variables
set_recipients(p, recipient_type, emails, backend) ==
    LET items == emails.items
        idxs  == 1..Len(items)
        mailgun_to == backend.esp_name = "Mailgun" /\ recipient_type = "to"
        r     == IF mailgun_to
                 THEN [p EXCEPT !.to_emails = [n \in idxs |-> items[n].email]]
                 ELSE p
        q     == [r EXCEPT !.all_recipients = @ \o items]
    IN  IF items = <<>> THEN r
        ELSE IF backend.esp_name = "SendGrid"
        THEN [q EXCEPT !.data = DictUpdate(@,
                 (recipient_type :> List([n \in idxs |-> items[n].email]))
                 @@ ((recipient_type \o "name") :>
                        List([n \in idxs |-> IF items[n].name = "" THEN " "
                                             ELSE items[n].name])))]
        ELSE Put(q, recipient_type, List(items))

\* set_to: SendGrid keeps the list for serialize_data, the others add the recipients
set_to(p, emails, backend) ==
    IF backend.esp_name = "SendGrid"
    THEN [p EXCEPT !.to_list = emails.items]
    ELSE set_recipients(p, "to", emails, backend)

\* email.split('@') for the sender mailboxes of the sample messages
split_at(email) ==
    CASE email = "from@example.com"            -> <<"from", "example.com">>
      [] email = "from@from-email.example.com" -> <<"from", "from-email.example.com">>
      [] email = "postmaster"                  -> <<"postmaster">>

\* set_from_email: SendGrid stores mailbox and name apart; Mailgun takes the
\* sender domain from the mailbox if it splits in two at '@' and none is known
set_from_email(p, email, backend) ==
    CASE backend.esp_name = "SendGrid" ->
           LET q == Put(p, "from", email.email)
           IN  IF email.name # "" THEN Put(q, "fromname", email.name) ELSE q
      [] backend.esp_name = "Mailgun" ->
           LET q     == Put(p, "from", email)
               parts == split_at(email.email)
           IN  IF q.sender_domain = None /\ Len(parts) = 2
               THEN [q EXCEPT !.sender_domain = Str(parts[2])]
               ELSE q
      [] OTHER -> Put(p, "from", email)

\* set_reply_to of Mailgun and SendGrid: a Reply-To header, unless the list is empty
set_reply_to(p, emails, backend) ==
    IF emails.items = <<>> THEN p
    ELSE IF backend.esp_name = "SendGrid"
    THEN [p EXCEPT !.data.headers = DictUpdate(@, "Reply-To" :> emails)]
    ELSE Put(p, "h:Reply-To", emails)

\* set_extra_headers of Mailgun and SendGrid (the header values here are strings)
set_extra_headers(p, headers, backend) ==
    IF backend.esp_name = "SendGrid"
    THEN [p EXCEPT !.data.headers = DictUpdate(@, headers.m)]
    ELSE [p EXCEPT !.data = DictUpdate(@, Prefixed("h:", headers.m))]

\* set_html_body: Mailgun and SendGrid report a second html part, then store it
set_html_body(p, body, backend) ==
    IF backend.esp_name \in {"Mailgun", "SendGrid"}
    THEN LET q == IF p.has_html
                  THEN unsupported_feature(p, "multiple html parts", backend)
                  ELSE p
         IN  IF q.error # "none" THEN q
             ELSE Put([q EXCEPT !.has_html = TRUE], "html", body)
    ELSE Put([p EXCEPT !.has_html = TRUE], "html", body)

\* BasePayload.set_alternatives, from the n-th alternative on
RECURSIVE set_alternatives(_, _, _, _)
set_alternatives(p, alternatives, n, backend) ==
    IF n > Len(alternatives) \/ p.error # "none" THEN p
    ELSE LET alt == alternatives[n]
             q   == IF alt.mimetype = "text/html"
                    THEN set_html_body(p, alt.content, backend)
                    ELSE unsupported_feature(p, "alternative part", backend)
         IN  set_alternatives(q, alternatives, n + 1, backend)

\* add_attachment: Mailgun appends to a list of files; SendGrid keeps one file
\* per filename, reports a filename already used, then stores the file
add_attachment(p, attachment, backend) ==
    IF backend.esp_name = "SendGrid"
    THEN LET files_field == "files[" \o attachment.name \o "]"
             q == IF files_field \in DOMAIN p.files
                  THEN unsupported_feature(p, "multiple attachments with the same filename",
                                           backend)
                  ELSE p
         IN  IF q.error # "none" THEN q
             ELSE [q EXCEPT !.files = DictUpdate(@, files_field :> attachment)]
    ELSE [p EXCEPT !.files = Append(@, [field |-> "attachment", file |-> attachment])]

\* BasePayload.set_attachments, from the n-th attachment on
RECURSIVE set_attachments(_, _, _, _)
set_attachments(p, attachments, n, backend) ==
    IF n > Len(attachments) \/ p.error # "none" THEN p
    ELSE set_attachments(add_attachment(p, attachments[n], backend),
                         attachments, n + 1, backend)

\* SendGridPayload.add_filter
add_filter(p, filter_name, setting, val) ==
    LET filters  == IF "filters" \in DOMAIN p.smtpapi THEN p.smtpapi.filters ELSE << >>
        settings_ == IF filter_name \in DOMAIN filters
                     THEN filters[filter_name].settings ELSE << >>
    IN  PutSmtpapi(p, "filters",
            DictUpdate(filters,
                filter_name :> [settings |-> DictUpdate(settings_, setting :> val)]))

\* a set_esp_extra that keeps a sender domain already taken from from_email
set_esp_extra_keeping_domain(p, extra, backend) ==
    LET data == DictUpdate(p.data, extra.m)
    IN  [p EXCEPT !.data = Without(data, "sender_domain"),
                  !.sender_domain = IF "sender_domain" \in DOMAIN data /\ @ = None
                                    THEN Str(data.sender_domain) ELSE @]

\* MailgunPayload.set_esp_extra: the entries go to the form data, except
\* sender_domain, which replaces the sender domain
set_esp_extra(p, extra, backend) ==
    LET data == DictUpdate(p.data, extra.m)
    IN  [p EXCEPT !.data = Without(data, "sender_domain"),
                  !.sender_domain = IF "sender_domain" \in DOMAIN data
                                    THEN Str(data.sender_domain) ELSE @]

\* The payload code changes, in place, an object it was handed as the value of
\* the field attr: when the object belongs to the message or to the send
\* defaults (p.owner), the change is one to the caller's object
Written(p, attr, before, after) ==
    IF attr \in DOMAIN p.owner /\ after # before
    THEN [p EXCEPT !.writes = Append(@, [owner |-> p.owner[attr], attr |-> attr,
                                         value |-> after])]
    ELSE p

\* the setters of the extended fields that Mailgun and SendGrid implement
set_extended(p, setter, value, backend) ==
    LET sendgrid == backend.esp_name = "SendGrid"
        yesno(b) == IF b.b THEN "yes" ELSE "no"
        int(b)   == IF b.b THEN 1 ELSE 0
    IN  CASE setter = "set_metadata" ->
               IF sendgrid THEN PutSmtpapi(p, "unique_args", value.m)
               ELSE [p EXCEPT !.data = DictUpdate(@, Prefixed("v:", value.m))]
          [] setter = "set_send_at" ->
               IF sendgrid THEN PutSmtpapi(p, "send_at", [t |-> "timestamp", of |-> value])
               ELSE Put(p, "o:deliverytime",
                        IF value.t = "datetime" THEN [t |-> "rfc2822date", of |-> value]
                        ELSE value)
          [] setter = "set_tags" ->
               IF sendgrid THEN PutSmtpapi(p, "category", value)
               ELSE Put(p, "o:tag", value)
          [] setter = "set_track_clicks" ->
               IF sendgrid THEN add_filter(p, "clicktrack", "enable", int(value))
               ELSE Put(p, "o:tracking-clicks", yesno(value))
          [] setter = "set_track_opens" ->
               IF sendgrid THEN add_filter(p, "opentrack", "enable", int(value))
               ELSE Put(p, "o:tracking-opens", yesno(value))
          [] setter = "set_template_id" ->
               add_filter(add_filter(p, "templates", "enable", 1),
                          "templates", "template_id", value)
          [] setter = "set_template_data" ->
               [p EXCEPT !.template_data = value]
          [] setter = "set_template_global_data" ->
               [p EXCEPT !.template_global_data = value]
          [] setter = "set_esp_extra" ->
               IF sendgrid
               THEN LET extra == Dict(Without(value.m, "template_var_format"))
                    IN  [Written(p, "esp_extra", value, extra)
                            EXCEPT !.data = DictUpdate(@, extra.m)]
               ELSE set_esp_extra(p, value, backend)

\* a pipeline that hands the body to set_text_body whatever the subtype is
SetterForBodyAsText(attr, message) ==
    IF attr = "body" THEN "set_text_body" ELSE "set_" \o attr

\* the setter the pipeline picks for a field (set_<attr>, body by content_subtype)
SetterFor(attr, message) ==
    IF attr = "body"
    THEN IF message.content_subtype = "html" THEN "set_html_body" ELSE "set_text_body"
    ELSE [from_email |-> "set_from_email", to |-> "set_to", cc |-> "set_cc",
          bcc |-> "set_bcc", subject |-> "set_subject", reply_to |-> "set_reply_to",
          extra_headers |-> "set_extra_headers", alternatives |-> "set_alternatives",
          attachments |-> "set_attachments", metadata |-> "set_metadata",
          send_at |-> "set_send_at", tags |-> "set_tags",
          track_clicks |-> "set_track_clicks", track_opens |-> "set_track_opens",
          template_id |-> "set_template_id", merge_data |-> "set_merge_data",
          merge_global_data |-> "set_merge_global_data",
          esp_extra |-> "set_esp_extra"][attr]

\* setter(value): the call is recorded, then the setter acts
CallSetter(p, setter, value, backend) ==
    LET q == [p EXCEPT !.calls = Append(@, [setter |-> setter, value |-> value])]
        adapter == backend.esp_name \in {"Mailgun", "SendGrid"}
    IN  CASE setter = "set_from_email"   -> set_from_email(q, value, backend)
          [] setter = "set_to"           -> set_to(q, value, backend)
          [] setter = "set_cc"           -> set_recipients(q, "cc", value, backend)
          [] setter = "set_bcc"          -> set_recipients(q, "bcc", value, backend)
          [] setter = "set_subject"      -> Put(q, "subject", value)
          [] setter = "set_text_body"    -> Put(q, "text", value)
          [] setter = "set_html_body"    -> set_html_body(q, value, backend)
          [] setter = "set_alternatives" -> set_alternatives(q, value.items, 1, backend)
          [] setter = "set_attachments"  -> set_attachments(q, value.items, 1, backend)
          [] setter \in DOMAIN BaseUnsupported
             /\ setter \notin Overridden(backend.esp_name)
                                         -> unsupported_feature(q, BaseUnsupported[setter], backend)
          [] setter = "set_reply_to"      -> set_reply_to(q, value, backend)
          [] setter = "set_extra_headers" -> set_extra_headers(q, value, backend)
          [] OTHER                        -> set_extended(q, setter, value, backend)

\* getattr(message, attr, UNSET)
getattr(message, attr) ==
    IF attr \in DOMAIN message.attrs THEN message.attrs[attr] ELSE UNSET

\* a pipeline that hands the combiner the message's value first
CombinedMessageFirst(entry, message, defaults) ==
    LET value         == getattr(message, entry[1])
        default_value == DictGet(defaults, entry[1], UNSET)
    IN  IF entry[2] = "last" THEN last(default_value, value)
        ELSE combine(value, default_value)

\* the value BasePayload.__init__ computes for one table entry, before conversion
Combined(entry, message, defaults) ==
    LET value         == getattr(message, entry[1])
        default_value == DictGet(defaults, entry[1], UNSET)
    IN  IF entry[2] = "last" THEN last(default_value, value)
        ELSE combine(default_value, value)

\* a pipeline that sends the tracking flags as false when nobody sets them
ApplyAttrFlagsDefaultFalse(p, entry, message, defaults, backend) ==
    LET combined  == Combined(entry, message, defaults)
        value     == IF combined = UNSET /\ entry[1] \in {"track_clicks", "track_opens"}
                     THEN Bool(FALSE) ELSE combined
        converted == IF value # UNSET THEN Convert(entry[3], value) ELSE value
    IN  IF converted # UNSET
        THEN CallSetter(p, SetterFor(entry[1], message), converted, backend)
        ELSE p

\* a combine that returns a lone argument itself instead of a copy
combined_object_shared(default_value, value) ==
    IF default_value = UNSET THEN "message"
    ELSE IF value = UNSET THEN "defaults"
    ELSE "new"

\* the object combine returns for a map field: a copy of the first map that is
\* present, updated with the later one, never an argument itself
combined_object(default_value, value) == "new"

\* the caller the value of a map field belongs to, if it is not a new object
OwnerOf(entry, message, defaults) ==
    IF entry[1] \in {"metadata", "esp_extra"}
    THEN combined_object(DictGet(defaults, entry[1], UNSET), getattr(message, entry[1]))
    ELSE "new"

\* one turn of the loop of BasePayload.__init__
ApplyAttr(p, entry, message, defaults, backend) ==
    LET value     == Combined(entry, message, defaults)
        converted == IF value # UNSET THEN Convert(entry[3], value) ELSE value
        owner     == OwnerOf(entry, message, defaults)
        q         == IF owner # "new" THEN [p EXCEPT !.owner = DictUpdate(@, entry[1] :> owner)]
                     ELSE p
    IN  IF converted # UNSET
        THEN CallSetter(q, SetterFor(entry[1], message), converted, backend)
        ELSE p

\* the loop of BasePayload.__init__ from table entry n on; an exception ends it
RECURSIVE BuildFrom(_, _, _, _, _)
BuildFrom(n, p, message, defaults, backend) ==
    IF n > Len(message_attrs) \/ p.error # "none" THEN p
    ELSE BuildFrom(n + 1, ApplyAttr(p, message_attrs[n], message, defaults, backend),
                   message, defaults, backend)

\* build_message_payload(message, defaults) of the backend
build_message_payload(message, defaults, backend) ==
    BuildFrom(1, init_payload_for(backend), message, defaults, backend)


-----------------------------------------------------------------------------
(* anymail.exceptions                                                      *)

\* AnymailError(response=response): what the exception carries
AnymailError(resp) == [response |-> resp, status_code |-> None]

\* AnymailRequestsAPIError(response=response): the status code is the response's
AnymailRequestsAPIError(resp) ==
    [AnymailError(resp) EXCEPT !.status_code = IF resp # None THEN resp.status_code ELSE None]

\* the classes derived from AnymailError
AnymailErrors ==
    {"AnymailError", "AnymailAPIError", "AnymailRequestsAPIError",
     "AnymailRecipientsRefused", "AnymailUnsupportedFeature",
     "AnymailSerializationError", "AnymailWebhookValidationFailure"}

\* isinstance(exc, AnymailError)
IsAnymailError(exc) == exc \in AnymailErrors

-----------------------------------------------------------------------------
(* anymail.message: AnymailStatus and the status vocabulary                *)

ANYMAIL_STATUSES == {"queued", "sent", "delivered", "rejected", "invalid", "unknown"}

\* AnymailStatus(): the initial record
AnymailStatus ==
    [status |-> None, message_id |-> None, recipients |-> <<>>, esp_response |-> None]

\* AnymailRecipientStatus(message_id, status)
AnymailRecipientStatus(message_id, status) ==
    [message_id |-> message_id, status |-> status]

\* a Status that keeps no entry for a recipient that was refused
set_recipient_status_unless_refused(st, recipients) ==
    LET all == DictUpdate(st.recipients, recipients)
        ids == {all[r].message_id : r \in DOMAIN all}
        accepted == {r \in DOMAIN all : all[r].status \notin {"rejected", "invalid"}}
    IN  [st EXCEPT !.recipients = [r \in accepted |-> all[r]],
                   !.status     = [t |-> "set", s |-> {all[r].status : r \in DOMAIN all}],
                   !.message_id = IF Cardinality(ids) = 1
                                  THEN CHOOSE i \in ids : TRUE
                                  ELSE [t |-> "set", s |-> ids]]

\* AnymailStatus.set_recipient_status(recipients)
set_recipient_status(st, recipients) ==
    LET all == DictUpdate(st.recipients, recipients)
        ids == {all[r].message_id : r \in DOMAIN all}
    IN  [st EXCEPT !.recipients = all,
                   !.status     = [t |-> "set", s |-> {all[r].status : r \in DOMAIN all}],
                   !.message_id = IF Cardinality(ids) = 1
                                  THEN CHOOSE i \in ids : TRUE
                                  ELSE [t |-> "set", s |-> ids]]

-----------------------------------------------------------------------------
(* Backend construction                                                    *)

\* a resolver that lays the global defaults over the ESP's
ResolveGlobalOverEsp(global_defaults, esp_defaults) ==
    IF esp_defaults # None
    THEN DictUpdate(esp_defaults.m, global_defaults)
    ELSE global_defaults

\* the send-defaults resolver of AnymailBaseBackend.__init__
ResolveSendDefaults(global_defaults, esp_defaults) ==
    IF esp_defaults # None
    THEN DictUpdate(global_defaults, esp_defaults.m)
    ELSE global_defaults

\* a resolver that updates the global defaults where they are
GlobalUpdatedInPlace(global_defaults, esp_defaults) ==
    IF esp_defaults # None
    THEN DictUpdate(global_defaults, esp_defaults.m)
    ELSE global_defaults

\* the global defaults map once __init__ has merged: update() is applied to
\* the copy made by send_defaults.copy(), the map of the settings is only read
GlobalAfterMerge(global_defaults, esp_defaults) == global_defaults

\* get_anymail_setting(name, ...) called without a default: it raises
\* AnymailConfigurationError when the setting is absent
required_setting_missing(name, creds) == name \notin creds

\* constructors content with any one credential
CredentialsOkAny(esp, creds) == creds # {}

\* whether the adapter's constructor finds the credentials it requires
CredentialsOk(esp, creds) ==
    CASE esp = "Mailgun"  -> ~required_setting_missing("api_key", creds)
      [] esp = "SendGrid" -> ~("api_key" \notin creds
                               /\ ("username" \notin creds \/ "password" \notin creds))
      [] OTHER            -> TRUE

\* the backend as the payload classes see it
Backend ==
    [esp_name |-> esp_name, ignore_unsupported_features |-> ignore_unsupported_features]

\* <Backend>.__init__, called by the caller with its fail_silently
Construct ==
    /\ pc = "start"
    /\ IF CredentialsOk(esp_name, settings.creds)
       THEN /\ send_defaults' = ResolveSendDefaults(settings.send_defaults,
                                                    settings.esp_send_defaults)
            /\ settings' = [settings EXCEPT !.send_defaults =
                                GlobalAfterMerge(@, settings.esp_send_defaults)]
            /\ pc' = "ready"
            /\ escaped' = escaped
       ELSE /\ pc' = "raised"
            /\ escaped' = "AnymailConfigurationError"
            /\ UNCHANGED <<send_defaults, settings>>
    /\ UNCHANGED <<esp_name, fail_silently, ignore_unsupported_features,
                   ignore_recipient_status, session, batch, anymail_status, idx,
                   num_sent, created_session, payload, response, log, calls, detail>>

-----------------------------------------------------------------------------
(* AnymailRequestsBackend: the session                                     *)

\* The caller opens the connection itself before sending (a shared session).
\* requests.Session() may raise (made = FALSE).
CallerOpen ==
    /\ pc = "ready"
    /\ session = 0
    /\ calls.Session = 0
    /\ \E made \in BOOLEAN :
         /\ calls' = [calls EXCEPT !.Session = @ + 1]
         /\ IF made
            THEN /\ session' = calls.Session + 1
                 /\ UNCHANGED <<pc, escaped>>
            ELSE /\ session' = session
                 /\ IF fail_silently
                    THEN UNCHANGED <<pc, escaped>>
                    ELSE pc' = "raised" /\ escaped' = "RequestException"
    /\ UNCHANGED <<settings, esp_name, fail_silently, ignore_unsupported_features,
                   ignore_recipient_status, send_defaults, batch, anymail_status, idx,
                   num_sent, created_session, payload, response, log, detail>>

\* send_messages up to the loop: the empty-batch return and self.open()
SendMessages ==
    /\ pc = "ready"
    /\ IF batch = <<>>
       THEN /\ pc' = "returned"
            /\ UNCHANGED <<session, created_session, calls, escaped>>
       ELSE IF session # 0
       THEN /\ created_session' = FALSE
            /\ calls' = [calls EXCEPT !.open = @ + 1]
            /\ pc' = "send"
            /\ UNCHANGED <<session, escaped>>
       ELSE \E made \in BOOLEAN :
            /\ calls' = [calls EXCEPT !.open = @ + 1, !.Session = @ + 1]
            /\ IF made
               THEN /\ session' = calls.Session + 1
                    /\ created_session' = TRUE
                    /\ pc' = "send"
                    /\ escaped' = escaped
               ELSE /\ session' = session
                    /\ created_session' = FALSE
                    /\ IF fail_silently
                       THEN pc' = "send" /\ escaped' = escaped
                       ELSE pc' = "raised" /\ escaped' = "RequestException"
    /\ UNCHANGED <<settings, esp_name, fail_silently, ignore_unsupported_features,
                   ignore_recipient_status, send_defaults, batch, anymail_status, idx,
                   num_sent, payload, response, log, detail>>


-----------------------------------------------------------------------------
(* The ESP's answers                                                       *)

Garbage == [t |-> "garbage"]

\* a 200 answer of an ESP that reports one status per recipient
StatusBody(statuses) == [t |-> "statuses", id |-> Str("<id>"), statuses |-> statuses]

\* a JSON object answered by Mailgun or SendGrid
JsonBody(m) == [t |-> "json", m |-> m]

Response(status_code, body) ==
    [t |-> "Response", status_code |-> status_code, body |-> body]

\* the recipients of a payload by their full address, display name included
FullAddresses(p) ==
    {p.all_recipients[n].name \o " <" \o p.all_recipients[n].email \o ">" :
         n \in 1..Len(p.all_recipients)}

\* the mailboxes of a payload's recipients
Mailboxes(p) == {p.all_recipients[n].email : n \in 1..Len(p.all_recipients)}

\* a text as the sequence of its pieces
Text(pieces) == [t |-> "text", pieces |-> pieces]

\* what the ESP may answer to the request for payload p; with `detail` the ESP
\* answers with every status code and body of the model (a status per
\* recipient, a JSON null as Mailgun's message), without it with a few
Responses(esp, p) ==
    {Response(500, Garbage), Response(200, Garbage)}
    \cup (IF detail THEN {Response(202, Garbage)} ELSE {})
    \cup
    {Response(200, b) : b \in
        CASE esp = "Mailgun" ->
               {JsonBody([id |-> "<id>", message |-> Text(<<"Queued", ". Thank you.">>)]),
                JsonBody([message |-> Text(<<"Sorry">>)])}
               \cup (IF detail
                     THEN {JsonBody([id |-> "<id>", message |-> Text(<<"Queued", " for delivery">>)]),
                           JsonBody([id |-> "<id>", message |-> Text(<<"Sorry">>)]),
                           JsonBody([id |-> "<id>", message |-> None])}
                     ELSE {})
          [] esp = "SendGrid" ->
               {JsonBody([message |-> "success"]), JsonBody([message |-> "error"])}
          [] OTHER ->
               IF detail
               THEN {StatusBody(f) : f \in [Mailboxes(p) -> ANYMAIL_STATUSES]}
                    \cup {StatusBody(<<>>)}
               ELSE {StatusBody([r \in Mailboxes(p) |-> st]) : st \in {"queued", "rejected"}}}

-----------------------------------------------------------------------------
(* The adapters: transmit and parse                                        *)

\* SendGridBackend.generate_message_id: the setting's default
generate_message_id == TRUE

\* SendGridPayload.ensure_message_id: the Message-ID header is kept or made, and
\* copied into the smtpapi unique_args as smtp-id
ensure_message_id(p) ==
    LET headers     == p.data.headers
        message_id  == IF "Message-ID" \in DOMAIN headers THEN headers["Message-ID"]
                       ELSE "<Message-ID>"
        unique_args == IF "unique_args" \in DOMAIN p.smtpapi THEN p.smtpapi.unique_args
                       ELSE << >>
        with_id     == DictUpdate(unique_args, "smtp-id" :> message_id)
        q           == IF "unique_args" \in DOMAIN p.smtpapi
                       THEN Written(p, "metadata", Dict(unique_args), Dict(with_id))
                       ELSE p
    IN  [q EXCEPT !.data.headers = DictUpdate(@, "Message-ID" :> message_id),
                  !.message_id   = Str(message_id),
                  !.smtpapi      = DictUpdate(@, "unique_args" :> with_id)]

\* RequestsPayload.serialize_json: the JSON text of a value
serialize_json(value) == [t |-> "json", of |-> value]

\* MailgunPayload.populate_recipient_variables: the template data, with the global
\* template data spread over the 'to' mailboxes, becomes 'recipient-variables'
populate_recipient_variables(p) ==
    LET global == p.template_global_data
        own    == IF p.template_data # None THEN p.template_data.m ELSE << >>
        tos    == {p.to_emails[n] : n \in 1..Len(p.to_emails)}
        template_data ==
            IF global # None
            THEN Dict([email \in (DOMAIN own) \cup tos |->
                          IF email \notin tos THEN own[email]
                          ELSE IF email \in DOMAIN own
                          THEN DictUpdate(global.m, own[email])
                          ELSE global.m])
            ELSE p.template_data
    IN  IF template_data # None
        THEN Put(p, "recipient-variables", serialize_json(template_data))
        ELSE p

\* objects json.dumps has no encoding for (a Decimal), by their repr
NotJsonEncodable == {"Decimal('19.99')"}

\* json.dumps(m) does not raise TypeError: no value of the map m is such an object
json_encodable(m) == \A k \in DOMAIN m : m[k] \notin NotJsonEncodable

\* SendGridPayload.serialize_data: the message id is settled, the 'to' list is
\* bound, then x-smtpapi (with the x-smtpapi of esp_extra merged in) and the
\* headers are serialized to JSON.  Values from the caller reach the JSON
\* through unique_args (the metadata) and the headers; Reply-To is a string.
serialize_sendgrid_data(p, backend) ==
    LET q       == set_recipients(IF generate_message_id THEN ensure_message_id(p) ELSE p,
                                  "to", List(p.to_list), backend)
        extra   == IF "x-smtpapi" \in DOMAIN q.data THEN q.data["x-smtpapi"] ELSE << >>
        filters == IF "filters" \in DOMAIN q.smtpapi THEN q.smtpapi.filters ELSE << >>
        smtpapi == IF q.smtpapi = << >> THEN extra
                   ELSE [k \in DOMAIN q.smtpapi \cup DOMAIN extra |->
                            IF k \notin DOMAIN extra THEN q.smtpapi[k]
                            ELSE IF k = "filters" THEN DictUpdate(filters, extra[k])
                            ELSE extra[k]]
        args    == IF "unique_args" \in DOMAIN smtpapi THEN smtpapi.unique_args ELSE << >>
        r       == IF q.smtpapi # << >>
                   THEN Put([q EXCEPT !.smtpapi = smtpapi], "x-smtpapi", serialize_json(smtpapi))
                   ELSE IF "x-smtpapi" \in DOMAIN q.data
                   THEN Put(q, "x-smtpapi", serialize_json(extra))
                   ELSE q
        headers == q.data.headers
    IN  IF (q.smtpapi # << >> \/ "x-smtpapi" \in DOMAIN q.data) /\ ~json_encodable(args)
        THEN [q EXCEPT !.error = "AnymailSerializationError"]
        ELSE IF ~json_encodable(Without(headers, "Reply-To"))
        THEN [r EXCEPT !.error = "AnymailSerializationError"]
        ELSE Put(r, "headers", serialize_json(headers))

\* payload.serialize_data(): SendGrid as above, Mailgun adds the recipient
\* variables, the base payload returns its data
serialize_data(p, backend) ==
    CASE backend.esp_name = "SendGrid" -> serialize_sendgrid_data(p, backend)
      [] backend.esp_name = "Mailgun"  -> populate_recipient_variables(p)
      [] OTHER -> p

\* payload.get_api_endpoint(): Mailgun raises AnymailError without a sender
\* domain; the base payload has no endpoint
get_api_endpoint(p, backend) ==
    CASE backend.esp_name = "Mailgun" ->
           IF p.sender_domain = None
           THEN [error |-> "AnymailError", endpoint |-> None]
           ELSE [error |-> "none", endpoint |-> Str(p.sender_domain.s \o "/messages")]
      [] backend.esp_name = "SendGrid" ->
           [error |-> "none", endpoint |-> Str("mail.send.json")]
      [] OTHER -> [error |-> "none", endpoint |-> None]

\* AnymailRequestsBackend.raise_for_status: whether it raises
\* a check that raises for the error classes of HTTP only
raise_for_http_error(resp) == resp.status_code >= 400

\* AnymailRequestsBackend.raise_for_status: whether it raises
raise_for_status(resp) == resp.status_code # 200

\* str.startswith
startswith(text, prefix) == text.pieces # <<>> /\ text.pieces[1] = prefix

\* <Backend>.parse_recipient_status: the recipient map, or the error raised
parse_recipient_status(esp, resp, p) ==
    LET queued(id) == [r \in Mailboxes(p) |-> AnymailRecipientStatus(id, "queued")]
        failed     == [error |-> "AnymailRequestsAPIError", recipients |-> <<>>]
        parsed(m)  == [error |-> "none", recipients |-> m]
        body       == resp.body
    IN  CASE body.t = "garbage" -> failed
          [] esp = "Mailgun" ->
               IF ~({"id", "message"} \subseteq DOMAIN body.m) THEN failed
               ELSE IF body.m.message.t # "text"
                    THEN [error |-> "AttributeError", recipients |-> <<>>]
               ELSE IF ~startswith(body.m.message, "Queued") THEN failed
               ELSE parsed(queued(Str(body.m.id)))
          [] esp = "SendGrid" ->
               IF "message" \notin DOMAIN body.m THEN failed
               ELSE IF body.m.message # "success" THEN failed
               ELSE parsed(queued(p.message_id))
          [] OTHER ->
               parsed([r \in DOMAIN body.statuses |->
                          AnymailRecipientStatus(body.id, body.statuses[r])])

\* a _send that does not keep the raw response
esp_response_dropped(st, resp) == st

\* _send: message.anymail_status.esp_response = response
set_esp_response(st, resp) == [st EXCEPT !.esp_response = resp]

\* a check that raises as soon as one recipient is refused
raise_for_any_refused(st) ==
    /\ ~ignore_recipient_status
    /\ st.status.s \cap {"invalid", "rejected"} # {}

\* AnymailBaseBackend.raise_for_recipient_status: whether it raises
raise_for_recipient_status(st) ==
    /\ ~ignore_recipient_status
    /\ st.status.s \subseteq {"invalid", "rejected"}

-----------------------------------------------------------------------------
(* AnymailBaseBackend.send_messages: the loop                              *)

\* message.recipients(): the message's own to, cc and bcc
recipients(message) ==
    message.attrs.to.items \o message.attrs.cc.items \o message.attrs.bcc.items

\* a _send without the recipients check
no_recipients_unchecked(message) == FALSE

\* a _send that looks for recipients after the send defaults are applied
no_recipients_after_defaults(message) ==
    /\ recipients(message) = <<>>
    /\ \A a \in {"to", "cc", "bcc"} :
           a \in DOMAIN send_defaults => send_defaults[a].items = <<>>

\* if not message.recipients(): return False
no_recipients(message) == recipients(message) = <<>>

\* a handler that swallows only recipient refusals
SwallowedRefusalsOnly(exc) == exc = "AnymailRecipientsRefused" /\ fail_silently

\* a handler that swallows Anymail errors whatever the mode is
SwallowedAlways(exc) == IsAnymailError(exc)

\* a handler that swallows every exception in fail_silently mode
SwallowedAnyException(exc) == fail_silently

\* except AnymailError: if self.fail_silently: sent = False
Swallowed(exc) == IsAnymailError(exc) /\ fail_silently

\* a loop that counts every attempt that raised nothing
CountedUnlessRaised(outcome) == outcome \in {"sent", "not_sent"}

\* if sent: num_sent += 1
Counted(outcome) == outcome = "sent"

\* a loop that tries a message again when its error was swallowed
EndAttemptRetrying(outcome, l) ==
    LET raises == outcome \notin {"sent", "not_sent"} /\ ~Swallowed(outcome)
        again  == outcome \notin {"sent", "not_sent"} /\ Swallowed(outcome)
    IN  /\ log' = [l EXCEPT !.outcome[idx] = outcome]
        /\ num_sent' = IF Counted(outcome) THEN num_sent + 1 ELSE num_sent
        /\ escaped' = IF raises THEN outcome ELSE escaped
        /\ idx' = IF raises \/ again THEN idx ELSE idx + 1
        /\ pc' = IF raises \/ (~again /\ idx + 1 > Len(batch)) THEN "finally" ELSE "send"

\* The attempt for batch[idx] ends with `outcome`: "sent" (_send returned True),
\* "not_sent" (it returned False) or the exception it raised.  l is the log so far.
EndAttempt(outcome, l) ==
    LET raises == outcome \notin {"sent", "not_sent"} /\ ~Swallowed(outcome)
    IN  /\ log' = [l EXCEPT !.outcome[idx] = outcome]
        /\ num_sent' = IF Counted(outcome) THEN num_sent + 1 ELSE num_sent
        /\ escaped' = IF raises THEN outcome ELSE escaped
        /\ idx' = IF raises THEN idx ELSE idx + 1
        /\ pc' = IF raises \/ idx + 1 > Len(batch) THEN "finally" ELSE "send"

\* _send, first part: the session check of AnymailRequestsBackend._send, the fresh
\* AnymailStatus and the recipients check
SendStart ==
    /\ pc = "send"
    /\ LET l == [log EXCEPT !.attempts = Append(@, idx)]
       IN  IF session = 0
           THEN /\ EndAttempt("RuntimeError", l)
                /\ UNCHANGED anymail_status
           ELSE /\ anymail_status' = [anymail_status EXCEPT ![idx] = AnymailStatus]
                /\ IF no_recipients(batch[idx])
                   THEN EndAttempt("not_sent", l)
                   ELSE /\ pc' = "build"
                        /\ log' = l
                        /\ UNCHANGED <<idx, num_sent, escaped>>
    /\ UNCHANGED <<settings, esp_name, fail_silently, ignore_unsupported_features,
                   ignore_recipient_status, send_defaults, session, batch,
                   created_session, payload, response, calls, detail>>

\* the attributes of a caller's object after the in-place changes of the payload
\* code that concern it
RECURSIVE AfterWrites(_, _, _, _)
AfterWrites(attrs, writes, owner, n) ==
    IF n > Len(writes) THEN attrs
    ELSE AfterWrites(IF writes[n].owner = owner
                     THEN DictUpdate(attrs, writes[n].attr :> writes[n].value)
                     ELSE attrs,
                     writes, owner, n + 1)

\* the message being sent and the send defaults are the objects the payload
\* code has written to
CallersObjects(p) ==
    /\ batch' = [batch EXCEPT ![idx].attrs = AfterWrites(@, p.writes, "message", 1)]
    /\ send_defaults' = AfterWrites(send_defaults, p.writes, "defaults", 1)

\* _send: payload = self.build_message_payload(message, self.send_defaults)
BuildPayload ==
    /\ pc = "build"
    /\ LET l == [log EXCEPT !.builds = Append(@, idx)]
           p == build_message_payload(batch[idx], send_defaults, Backend)
       IN  /\ payload' = p
           /\ CallersObjects(p)
           /\ IF p.error # "none"
              THEN EndAttempt(p.error, l)
              ELSE /\ pc' = "post"
                   /\ log' = l
                   /\ UNCHANGED <<idx, num_sent, escaped>>
    /\ UNCHANGED <<settings, esp_name, fail_silently, ignore_unsupported_features,
                   ignore_recipient_status, session,
                   anymail_status, created_session, response, calls, detail>>

\* _send: response = self.post_to_esp(payload, message), then esp_response is set.
\* post_to_esp: get_request_params (get_api_endpoint, then serialize_data), the
\* request on the session, raise_for_status
PostToEsp ==
    /\ pc = "post"
    /\ LET l == [log EXCEPT !.transmits = Append(@, idx)]
           e == get_api_endpoint(payload, Backend)
           p == serialize_data(payload, Backend)
           r == [l EXCEPT !.requests =
                    Append(@, [message |-> idx, endpoint |-> e.endpoint, data |-> p.data])]
       IN  IF e.error # "none"
           THEN /\ EndAttempt(e.error, l)
                /\ UNCHANGED <<payload, response, anymail_status, batch, send_defaults>>
           ELSE IF p.error # "none"
           THEN /\ payload' = p
                /\ CallersObjects(p)
                /\ EndAttempt(p.error, l)
                /\ UNCHANGED <<response, anymail_status>>
           ELSE
           /\ payload' = p
           /\ CallersObjects(p)
           /\ \E resp \in Responses(esp_name, p) :
                /\ response' = resp
                /\ IF raise_for_status(resp)
                   THEN /\ EndAttempt("AnymailRequestsAPIError",
                                      [r EXCEPT !.raised[idx] = AnymailRequestsAPIError(resp)])
                        /\ UNCHANGED anymail_status
                   ELSE /\ anymail_status' =
                             [anymail_status EXCEPT ![idx] = set_esp_response(@, resp)]
                        /\ pc' = "parse"
                        /\ log' = r
                        /\ UNCHANGED <<idx, num_sent, escaped>>
    /\ UNCHANGED <<settings, esp_name, fail_silently, ignore_unsupported_features,
                   ignore_recipient_status, session, created_session, calls, detail>>

\* _send: parse_recipient_status, then anymail_status.set_recipient_status
ParseResponse ==
    /\ pc = "parse"
    /\ LET r == parse_recipient_status(esp_name, response, payload)
           l == [log EXCEPT !.parses = Append(@, idx)]
       IN  IF r.error # "none"
           THEN /\ EndAttempt(r.error,
                              IF r.error = "AnymailRequestsAPIError"
                              THEN [l EXCEPT !.raised[idx] = AnymailRequestsAPIError(response)]
                              ELSE l)
                /\ UNCHANGED anymail_status
           ELSE /\ anymail_status' =
                     [anymail_status EXCEPT
                        ![idx] = set_recipient_status(@, r.recipients)]
                /\ pc' = "check"
                /\ log' = l
                /\ UNCHANGED <<idx, num_sent, escaped>>
    /\ UNCHANGED <<settings, esp_name, fail_silently, ignore_unsupported_features,
                   ignore_recipient_status, send_defaults, session, batch,
                   created_session, payload, response, calls, detail>>

\* _send: raise_for_recipient_status, then return True
CheckRecipientStatus ==
    /\ pc = "check"
    /\ IF raise_for_recipient_status(anymail_status[idx])
       THEN EndAttempt("AnymailRecipientsRefused",
                       [log EXCEPT !.raised[idx] = AnymailError(response)])
       ELSE EndAttempt("sent", log)
    /\ UNCHANGED <<settings, esp_name, fail_silently, ignore_unsupported_features,
                   ignore_recipient_status, send_defaults, session, batch,
                   anymail_status, created_session, payload, response, calls, detail>>

\* a batch that closes whatever session it has used
MustCloseAlways == TRUE

\* send_messages: if created_session: (self.close())
MustClose == created_session

\* send_messages: finally: if created_session: self.close(); then return or raise.
\* close() does nothing without a session; session.close() may raise
\* (closed = FALSE), and close() clears the session anyway.
Finally ==
    /\ pc = "finally"
    /\ IF MustClose
       THEN \E closed \in BOOLEAN :
              /\ calls' = [calls EXCEPT !.close = @ + 1]
              /\ session' = 0
              /\ escaped' = IF session # 0 /\ ~closed /\ ~fail_silently
                            THEN "RequestException" ELSE escaped
       ELSE UNCHANGED <<calls, session, escaped>>
    /\ pc' = IF escaped' = "none" THEN "returned" ELSE "raised"
    /\ UNCHANGED <<settings, esp_name, fail_silently, ignore_unsupported_features,
                   ignore_recipient_status, send_defaults, batch, anymail_status, idx,
                   num_sent, created_session, payload, response, log, detail>>

Next ==
    \/ Construct
    \/ CallerOpen
    \/ SendMessages
    \/ SendStart
    \/ BuildPayload
    \/ PostToEsp
    \/ ParseResponse
    \/ CheckRecipientStatus
    \/ Finally


-----------------------------------------------------------------------------
(* The inputs: messages, settings, and the initial states                  *)

\* a message object: its attributes and its content_subtype
Message(attrs, content_subtype) == [attrs |-> attrs, content_subtype |-> content_subtype]

ToA == Addr("", "a@example.com")

ToB == Addr("B", "b@example.com")

PlainAttrs ==
    [from_email |-> Addr("", "from@example.com"), to |-> List(<<ToA>>),
     cc |-> List(<<>>), bcc |-> List(<<>>), subject |-> Str("Subject"),
     body |-> Str("Text Body")]

\* mail.EmailMessage('Subject', 'Text Body', 'from@example.com', ['a@example.com'])
PlainMsg == Message(PlainAttrs, "plain")

\* the same with a second recipient in cc
TwoRecipientsMsg == Message([PlainAttrs EXCEPT !.cc = List(<<ToB>>)], "plain")

\* the same with no recipient at all
NoRecipientsMsg == Message([PlainAttrs EXCEPT !.to = List(<<>>)], "plain")

\* the plain message with an alternative part no adapter can express
JsonAlternativeMsg ==
    Message(DictUpdate(PlainAttrs,
                [alternatives |->
                    List(<<[content |-> "{}", mimetype |-> "application/json"]>>)]),
            "plain")

\* the sequences over S of length at most n
RECURSIVE SeqsUpTo(_, _)
SeqsUpTo(S, n) ==
    IF n = 0 THEN {<<>>}
    ELSE LET shorter == SeqsUpTo(S, n - 1)
         IN  shorter \cup {Append(q, x) : q \in {r \in shorter : Len(r) = n - 1}, x \in S}

\* the subsets of S with at most n elements
RECURSIVE SubsetsUpTo(_, _)
SubsetsUpTo(S, n) ==
    IF n = 0 THEN {{}}
    ELSE LET smaller == SubsetsUpTo(S, n - 1)
         IN  smaller \cup {T \cup {x} : T \in smaller, x \in S}

NoSettings == [creds |-> {}, send_defaults |-> <<>>, esp_send_defaults |-> None]

\* the state before the backend is constructed
InitWith(esps, settingses, batches, silent, ignore_unsupported, ignore_status, det) ==
    /\ esp_name \in esps
    /\ settings \in settingses
    /\ batch \in batches
    /\ fail_silently \in silent
    /\ ignore_unsupported_features \in ignore_unsupported
    /\ ignore_recipient_status \in ignore_status
    /\ detail = det
    /\ send_defaults = <<>>
    /\ session = 0
    /\ anymail_status = [n \in 1..Len(batch) |-> None]
    /\ pc = "start"
    /\ idx = 1
    /\ num_sent = 0
    /\ created_session = FALSE
    /\ payload = None
    /\ response = None
    /\ escaped = "none"
    /\ log = [attempts |-> <<>>, builds |-> <<>>, transmits |-> <<>>, requests |-> <<>>,
              parses |-> <<>>,
              outcome |-> [n \in 1..Len(batch) |-> "pending"],
              raised  |-> [n \in 1..Len(batch) |-> None]]
    /\ calls = [Session |-> 0, open |-> 0, close |-> 0]

\* batches of sample messages sent through Mailgun, or through an adapter that
\* is built on the base classes and reports a status per recipient
Init ==
    InitWith({"Generic", "Mailgun"}, {[NoSettings EXCEPT !.creds = {"api_key"}]},
             SeqsUpTo({PlainMsg, NoRecipientsMsg, JsonAlternativeMsg}, MaxBatch),
             BOOLEAN, BOOLEAN, BOOLEAN, FALSE)

Spec == Init /\ [][Next]_vars

\* one message, the ESP answering with any status for each recipient
InitSend ==
    InitWith({"Generic"}, {NoSettings},
             {<<m>> : m \in {PlainMsg, TwoRecipientsMsg, NoRecipientsMsg}},
             BOOLEAN, {FALSE}, BOOLEAN, TRUE)

SpecSend == InitSend /\ [][Next]_vars

\* Mailgun and SendGrid under every combination of credentials
InitConfig ==
    InitWith({"Mailgun", "SendGrid"},
             {[NoSettings EXCEPT !.creds = c] : c \in SUBSET {"api_key", "username", "password"}},
             {<<PlainMsg>>, <<PlainMsg, NoRecipientsMsg>>},
             BOOLEAN, {FALSE}, {FALSE}, FALSE)

SpecConfig == InitConfig /\ [][Next]_vars


-----------------------------------------------------------------------------
(* The inputs of the attribute pipeline: for each field of the table, the  *)
(* value a message sets and the values the two layers of defaults give.    *)
(* The three differ, sequences share items and maps share keys.            *)

\* the shape of a field's values
ScalarAttrs == {"subject", "body", "template_id"}

AddressListAttrs == {"to", "cc", "bcc", "reply_to"}

FlatMapAttrs == {"extra_headers", "metadata", "merge_global_data", "esp_extra"}

\* src is "message", "esp" (the ESP's send defaults) or "global"
SampleValue(attr, src) ==
    LET pick(m, e, g) == IF src = "message" THEN m ELSE IF src = "esp" THEN e ELSE g
        X == Addr("X", "x@example.com")
        Y == Addr("", "y@example.com")
        Z == Addr("Z", "z@example.com")
    IN  CASE attr \in ScalarAttrs ->
               Str(pick("message", "esp", "global"))
          [] attr = "from_email" ->
               pick(Addr("M", "m@example.com"), Addr("", "e@example.org"),
                    Addr("G", "g@example.net"))
          [] attr \in AddressListAttrs ->
               List(pick(<<X, Y>>, <<Y>>, <<Z, X>>))
          [] attr = "tags" ->
               List(pick(<<"t1", "t2">>, <<"t2">>, <<"t3", "t1">>))
          [] attr = "alternatives" ->
               List(pick(<<[content |-> "<p>m</p>", mimetype |-> "text/html"]>>,
                         <<[content |-> "<p>e</p>", mimetype |-> "text/html"]>>,
                         <<[content |-> "{}", mimetype |-> "application/json"]>>))
          [] attr = "attachments" ->
               List(pick(<<[name |-> "m.txt", content |-> "m1"],
                           [name |-> "e.txt", content |-> "m2"]>>,
                         <<[name |-> "e.txt", content |-> "e"]>>,
                         <<[name |-> "g.txt", content |-> "g"]>>))
          [] attr \in FlatMapAttrs ->
               Dict(pick([k1 |-> "message", k2 |-> "message"],
                         [k2 |-> "esp", k3 |-> "esp"],
                         [k1 |-> "global", k3 |-> "global"]))
          [] attr = "merge_data" ->
               Dict(pick([x |-> [v |-> "message"], y |-> [v |-> "message"]],
                         [y |-> [v |-> "esp"]],
                         [x |-> [v |-> "global"], z |-> [v |-> "global"]]))
          [] attr = "send_at" ->
               pick([t |-> "datetime", day |-> 1, sec |-> 5, tz |-> "naive"],
                    [t |-> "date", day |-> 2],
                    [t |-> "int", n |-> 3 * DaySeconds + 7])
          [] attr \in {"track_clicks", "track_opens"} ->
               Bool(pick(FALSE, TRUE, FALSE))

\* the map giving the fields of S their sample value from src
SampleDict(S, src) == [a \in S |-> SampleValue(a, src)]

\* a message that always has to, cc and bcc (one recipient) and sets the fields of S
SampleMessage(S, content_subtype) ==
    Message(DictUpdate([to |-> List(<<ToA>>), cc |-> List(<<>>), bcc |-> List(<<>>)],
                       SampleDict(S, "message")),
            content_subtype)

\* one message; the message, the ESP send defaults and the global send defaults
\* each set any of up to MaxFields fields of the table
InitPayload ==
    \E F \in SubsetsUpTo(AttrNames, MaxFields) :
      \E M \in SUBSET F, E \in SUBSET F, G \in SUBSET F :
        InitWith({"Generic"},
                 {[creds             |-> {},
                   send_defaults     |-> SampleDict(G, "global"),
                   esp_send_defaults |-> e] : e \in {Dict(SampleDict(E, "esp"))}
                                                    \cup (IF E = {} THEN {None} ELSE {})},
                 {<<SampleMessage(M, subtype)>> :
                      subtype \in IF "body" \in F THEN {"plain", "html"} ELSE {"plain"}},
                 {FALSE}, BOOLEAN, {FALSE}, FALSE)

SpecPayload == InitPayload /\ [][Next]_vars


\* the fields the two layers of send defaults vary in SpecDefaults
DefaultKeys == {"tags", "metadata", "track_clicks"}

\* Mailgun with every choice of global and ESP send defaults over DefaultKeys
InitDefaults ==
    \E G \in SUBSET DefaultKeys, E \in SUBSET DefaultKeys :
        InitWith({"Mailgun"},
                 {[creds             |-> {"api_key"},
                   send_defaults     |-> SampleDict(G, "global"),
                   esp_send_defaults |-> e] : e \in {Dict(SampleDict(E, "esp"))}
                                                    \cup (IF E = {} THEN {None} ELSE {})},
                 {<<PlainMsg>>},
                 BOOLEAN, {FALSE}, {FALSE}, FALSE)

SpecDefaults == InitDefaults /\ [][Next]_vars

\* messages that use the features an adapter may or may not express

\* an html-only message
HtmlMsg == Message([PlainAttrs EXCEPT !.body = Str("<p>body</p>")], "html")

\* a text message with two text/html alternatives
TwoHtmlMsg ==
    Message(DictUpdate(PlainAttrs,
                [alternatives |->
                    List(<<[content |-> "<p>First html is OK</p>", mimetype |-> "text/html"],
                           [content |-> "<p>But not second html</p>",
                            mimetype |-> "text/html"]>>)]),
            "plain")

\* a message with tags and metadata
TaggedMsg ==
    Message(DictUpdate(PlainAttrs,
                [tags |-> List(<<"receipt">>), metadata |-> Dict([user_id |-> "12345"])]),
            "plain")

\* a message that names a stored template
TemplateMsg == Message(DictUpdate(PlainAttrs, [template_id |-> Str("welcome")]), "plain")

\* a message with two attachments of the same filename
SameNameAttachmentsMsg ==
    Message(DictUpdate(PlainAttrs,
                [attachments |-> List(<<[name |-> "test.txt", content |-> "first"],
                                        [name |-> "test.txt", content |-> "second"]>>)]),
            "plain")

\* a message whose to, cc and bcc share a mailbox under two display names
RecipientsMsg ==
    Message([PlainAttrs EXCEPT !.to  = List(<<ToA, ToB>>),
                               !.cc  = List(<<Addr("A again", "a@example.com")>>),
                               !.bcc = List(<<Addr("", "c@example.com")>>)],
            "plain")

FeatureMessages ==
    {PlainMsg, HtmlMsg, TwoHtmlMsg, JsonAlternativeMsg, TaggedMsg, TemplateMsg,
     SameNameAttachmentsMsg, RecipientsMsg}

\* one feature message, alone or followed by the plain one, through each
\* adapter, with and without global defaults for tags and bcc
InitFeatures ==
    InitWith({"Generic", "Mailgun", "SendGrid"},
             {[creds |-> {"api_key"}, send_defaults |-> d, esp_send_defaults |-> None] :
                  d \in {<< >>, SampleDict({"tags", "bcc"}, "global")}},
             {<<m>> : m \in FeatureMessages} \cup {<<m, PlainMsg>> : m \in FeatureMessages},
             BOOLEAN, BOOLEAN, {FALSE}, FALSE)

SpecFeatures == InitFeatures /\ [][Next]_vars

\* one or two messages through Mailgun or SendGrid, the ESP answering with any
\* of its bodies
InitResponses ==
    InitWith({"Mailgun", "SendGrid"}, {[NoSettings EXCEPT !.creds = {"api_key"}]},
             {<<m>> : m \in {PlainMsg, RecipientsMsg}}
                 \cup {<<m, n>> : m \in {PlainMsg, RecipientsMsg}, n \in {PlainMsg, RecipientsMsg}},
             BOOLEAN, {FALSE}, BOOLEAN, TRUE)

SpecResponses == InitResponses /\ [][Next]_vars

\* the Status an earlier, successful attempt has left on a message
EarlierStatus ==
    set_recipient_status(
        [AnymailStatus EXCEPT !.esp_response =
            Response(200, JsonBody([id |-> "<earlier>",
                                    message |-> Text(<<"Queued", ". Thank you.">>)]))],
        "a@example.com" :> AnymailRecipientStatus(Str("<earlier>"), "queued"))

\* messages sent again through Mailgun: each carries the Status of an earlier
\* attempt, and may by now have lost its recipients or gained an alternative
\* Mailgun cannot send
InitResend ==
    /\ esp_name = "Mailgun"
    /\ settings = [NoSettings EXCEPT !.creds = {"api_key"}]
    /\ batch \in {<<m>> : m \in {PlainMsg, NoRecipientsMsg, JsonAlternativeMsg}}
                 \cup {<<m, PlainMsg>> : m \in {PlainMsg, NoRecipientsMsg, JsonAlternativeMsg}}
    /\ fail_silently \in BOOLEAN
    /\ ignore_unsupported_features = FALSE
    /\ ignore_recipient_status = FALSE
    /\ detail = FALSE
    /\ send_defaults = <<>>
    /\ session = 0
    /\ anymail_status = [n \in 1..Len(batch) |-> EarlierStatus]
    /\ pc = "start"
    /\ idx = 1
    /\ num_sent = 0
    /\ created_session = FALSE
    /\ payload = None
    /\ response = None
    /\ escaped = "none"
    /\ log = [attempts |-> <<>>, builds |-> <<>>, transmits |-> <<>>, requests |-> <<>>,
              parses |-> <<>>,
              outcome |-> [n \in 1..Len(batch) |-> "pending"],
              raised  |-> [n \in 1..Len(batch) |-> None]]
    /\ calls = [Session |-> 0, open |-> 0, close |-> 0]

SpecResend == InitResend /\ [][Next]_vars

\* messages to two recipients that carry merge data, as in test_merge_data and
\* test_only_merge_global_data, and one that has merge data for one recipient only
Alice == Addr("", "alice@example.com")

Bob == Addr("Bob", "bob@example.com")

MergeMsg ==
    Message(DictUpdate([PlainAttrs EXCEPT !.to = List(<<Alice, Bob>>)],
                [merge_data |->
                    Dict(("alice@example.com" :> [name |-> "Alice", group |-> "Developers"])
                         @@ ("bob@example.com" :> [name |-> "Bob"])),
                 merge_global_data |-> Dict([group |-> "Users", site |-> "ExampleCo"])]),
            "plain")

GlobalMergeMsg ==
    Message(DictUpdate([PlainAttrs EXCEPT !.to = List(<<Alice, Bob>>)],
                [merge_global_data |-> Dict([test |-> "value"])]),
            "plain")

AliceMergeMsg ==
    Message(DictUpdate([PlainAttrs EXCEPT !.to = List(<<Alice, Bob>>)],
                [merge_data |-> Dict("alice@example.com" :> [name |-> "Alice"])]),
            "plain")

MergeMessages == {MergeMsg, GlobalMergeMsg, AliceMergeMsg}

\* one message with merge data, alone or followed by the plain one, through Mailgun
InitMerge ==
    InitWith({"Mailgun"}, {[NoSettings EXCEPT !.creds = {"api_key"}]},
             {<<m>> : m \in MergeMessages} \cup {<<m, PlainMsg>> : m \in MergeMessages},
             BOOLEAN, BOOLEAN, {FALSE}, FALSE)

SpecMerge == InitMerge /\ [][Next]_vars

\* messages for the sender domain, as in test_sender_domain, and two whose
\* from_email has no domain
FromDomainMsg ==
    Message([PlainAttrs EXCEPT !.from_email = Addr("Test From", "from@from-email.example.com")],
            "plain")

ExtraDomainMsg ==
    Message(DictUpdate(FromDomainMsg.attrs,
                [esp_extra |-> Dict([sender_domain |-> "esp-extra.example.com"])]),
            "plain")

NoDomainMsg == Message([PlainAttrs EXCEPT !.from_email = Addr("", "postmaster")], "plain")

NoDomainExtraMsg ==
    Message(DictUpdate(NoDomainMsg.attrs,
                [esp_extra |-> Dict([sender_domain |-> "esp-extra.example.com"])]),
            "plain")

DomainMessages == {PlainMsg, FromDomainMsg, ExtraDomainMsg, NoDomainMsg, NoDomainExtraMsg}

\* one or two of these messages through Mailgun; the send defaults have no
\* esp_extra, one with a sender_domain, or one with another option
InitDomain ==
    InitWith({"Mailgun"},
             {[creds |-> {"api_key"}, send_defaults |-> d, esp_send_defaults |-> None] :
                  d \in {<< >>,
                         [esp_extra |-> Dict([sender_domain |-> "defaults.example.com"])],
                         [esp_extra |-> Dict("o:testmode" :> "yes")]}},
             {<<m>> : m \in DomainMessages}
                 \cup {<<m, n>> : m \in DomainMessages, n \in DomainMessages},
             BOOLEAN, {FALSE}, {FALSE}, FALSE)

SpecDomain == InitDomain /\ [][Next]_vars

\* values for send_at, as in test_send_at: datetimes with a zone, a datetime and
\* a date without, POSIX timestamps, a string and None
SendAtValues ==
    {[t |-> "datetime", day |-> 16864, sec |-> 18367, tz |-> "utc-8"],
     [t |-> "datetime", day |-> 16864, sec |-> 18367, tz |-> "utc"],
     [t |-> "datetime", day |-> 19276, sec |-> 43994, tz |-> "naive"],
     [t |-> "date", day |-> 19287],
     [t |-> "int", n |-> 1651820889],
     [t |-> "int", n |-> 0],
     [t |-> "int", n |-> -1],
     [t |-> "float", n |-> 1651820889, us |-> 500000],
     Str("Thu, 13 Oct 2022 18:02:00 GMT"),
     None}

\* the plain message, with any of these as its send_at or with none, through
\* Mailgun; the send defaults may give a send_at of their own
InitSendAt ==
    InitWith({"Mailgun"},
             {[creds |-> {"api_key"}, send_defaults |-> d, esp_send_defaults |-> None] :
                  d \in {<< >>} \cup {[send_at |-> v] :
                                         v \in {[t |-> "date", day |-> 19000],
                                                [t |-> "int", n |-> 86399]}}},
             {<<PlainMsg>>}
                 \cup {<<Message(DictUpdate(PlainAttrs, [send_at |-> v]), "plain")>> :
                           v \in SendAtValues},
             BOOLEAN, {FALSE}, {FALSE}, FALSE)

SpecSendAt == InitSendAt /\ [][Next]_vars

\* messages with a value json.dumps cannot encode: in the metadata, in a header
DecimalMetadataMsg ==
    Message(DictUpdate(PlainAttrs,
                [metadata |-> Dict([user_id |-> "12345", total |-> "Decimal('19.99')"])]),
            "plain")

DecimalHeaderMsg ==
    Message(DictUpdate(PlainAttrs,
                [extra_headers |-> Dict("X-Total" :> "Decimal('19.99')")]),
            "plain")

SerializeMessages == {PlainMsg, TaggedMsg, DecimalMetadataMsg, DecimalHeaderMsg}

\* one or two of these messages through SendGrid, whose payload is serialized to
\* JSON, or through Mailgun, whose payload is not
InitSerialize ==
    InitWith({"SendGrid", "Mailgun"}, {[NoSettings EXCEPT !.creds = {"api_key"}]},
             {<<m>> : m \in SerializeMessages}
                 \cup {<<m, n>> : m \in SerializeMessages, n \in SerializeMessages},
             BOOLEAN, {FALSE}, {FALSE}, FALSE)

SpecSerialize == InitSerialize /\ [][Next]_vars

\* a message with esp_extra options, one of them SendGrid's template_var_format
EspExtraMsg ==
    Message(DictUpdate(PlainAttrs,
                [esp_extra |-> Dict([template_var_format |-> ":{}", subaccount |-> "12345"])]),
            "plain")

MapMessages == {TaggedMsg, EspExtraMsg, ExtraDomainMsg, MergeMsg}

\* send defaults with maps of their own
MapDefaults ==
    [metadata  |-> Dict([user_id |-> "defaults", site |-> "defaults"]),
     esp_extra |-> Dict([template_var_format |-> "-{}-"])]

\* one message with map fields, sent once or twice in one batch, through Mailgun
\* or SendGrid, with and without send defaults for the same fields
InitMaps ==
    InitWith({"Mailgun", "SendGrid"},
             {[creds |-> {"api_key"}, send_defaults |-> d, esp_send_defaults |-> None] :
                  d \in {<< >>, MapDefaults}},
             {<<m>> : m \in MapMessages \cup {PlainMsg}}
                 \cup {<<m, m>> : m \in MapMessages},
             BOOLEAN, BOOLEAN, {FALSE}, FALSE)

SpecMaps == InitMaps /\ [][Next]_vars

\* a text message with one text/html alternative (test_html_message)
HtmlAlternativeMsg ==
    Message(DictUpdate(PlainAttrs,
                [alternatives |->
                    List(<<[content |-> "<p>alternative</p>", mimetype |-> "text/html"]>>)]),
            "plain")

\* an html message that has a text/html alternative as well
HtmlTwiceMsg == Message(DictUpdate(HtmlMsg.attrs, HtmlAlternativeMsg.attrs), "html")

\* a message of subtype "html" sent as "plain" has the same body
BodyMessages ==
    {PlainMsg, HtmlMsg, HtmlAlternativeMsg, HtmlTwiceMsg,
     Message(HtmlMsg.attrs, "plain"), Message(PlainAttrs, "enriched")}

\* one of these messages, alone or followed by the plain one, through Mailgun or
\* SendGrid
InitBody ==
    InitWith({"Mailgun", "SendGrid"}, {[NoSettings EXCEPT !.creds = {"api_key"}]},
             {<<m>> : m \in BodyMessages} \cup {<<m, PlainMsg>> : m \in BodyMessages},
             BOOLEAN, BOOLEAN, {FALSE}, FALSE)

SpecBody == InitBody /\ [][Next]_vars

\* send defaults that supply recipients: every choice of global to, cc and bcc
\* defaults, and Mailgun send defaults that are absent or supply to
RecipientDefaults ==
    {[creds |-> {"api_key"}, send_defaults |-> SampleDict(G, "global"),
      esp_send_defaults |-> e] :
         G \in SUBSET {"to", "cc", "bcc"}, e \in {None, Dict(SampleDict({"to"}, "esp"))}}

\* Mailgun sending a message without recipients of its own, alone, before or
\* after a message that has recipients, with send defaults supplying recipients
InitRecipientDefaults ==
    InitWith({"Mailgun"}, RecipientDefaults,
             {<<NoRecipientsMsg>>, <<NoRecipientsMsg, PlainMsg>>, <<PlainMsg, NoRecipientsMsg>>},
             BOOLEAN, {FALSE}, {FALSE}, FALSE)

SpecRecipientDefaults == InitRecipientDefaults /\ [][Next]_vars

-----------------------------------------------------------------------------
(* Properties                                                              *)

Indices == 1..Len(batch)

\* the number of times x occurs in the sequence q
Count(x, q) == Cardinality({n \in 1..Len(q) : q[n] = x})

\* send_messages has ended, by returning or by raising
Ended == pc \in {"returned", "raised"}

\* the attempt for message k raised an error derived from AnymailError
RaisedAnymailError(k) == IsAnymailError(log.outcome[k])

\* message k's Status was populated from a parsed response
Populated(k) == anymail_status[k] # None /\ anymail_status[k].status # None

\* C1: in fail_silently mode, when the attempt for some message raises an error
\* derived from AnymailError, no exception leaves send_messages, the failed
\* message is not counted, every message after it is still attempted, and the
\* count returned is the number of messages whose attempt succeeded.
C1_FailSilentlyContinues ==
    (fail_silently /\ \E k \in Indices : RaisedAnymailError(k)) =>
        /\ escaped = "none"
        /\ pc # "raised"
        /\ \A k \in Indices : RaisedAnymailError(k) =>
              /\ idx > k
              /\ num_sent <= Cardinality({j \in Indices : j # k /\ Count(j, log.transmits) = 1})
        /\ pc \in {"finally", "returned"} =>
              /\ log.attempts = [n \in Indices |-> n]
              /\ num_sent = Cardinality({j \in Indices : log.outcome[j] = "sent"})

\* C1 witness: three messages, the second one failed, 2 is returned
C1_Witness ==
    /\ fail_silently
    /\ pc = "returned"
    /\ Len(batch) = 3
    /\ RaisedAnymailError(2)
    /\ log.outcome[1] = "sent" /\ log.outcome[3] = "sent"
    /\ num_sent = 2

\* C2: when fail_silently is off and the attempt for message k raises an error
\* derived from AnymailError, the loop is left at once with that error and
\* send_messages ends by raising: the messages before k that succeeded stay
\* sent (transmitted once, Status populated), and no message after k is
\* attempted, built or transmitted.
C2_ErrorAbortsBatch ==
    \A k \in Indices : (~fail_silently /\ RaisedAnymailError(k)) =>
        /\ idx = k
        /\ pc \in {"finally", "raised"}
        /\ pc = "finally" => escaped = log.outcome[k]
        /\ pc = "raised" =>
              \/ escaped = log.outcome[k]
              \/ escaped = "RequestException" /\ calls.close = 1
        /\ \A j \in Indices : j > k =>
              /\ Count(j, log.attempts) = 0
              /\ Count(j, log.builds) = 0
              /\ Count(j, log.transmits) = 0
              /\ log.outcome[j] = "pending"
              /\ anymail_status[j] = None
        /\ \A j \in Indices : j < k =>
              /\ log.outcome[j] \in {"sent", "not_sent"}
              /\ log.outcome[j] = "sent" =>
                    /\ Count(j, log.transmits) = 1
                    /\ Populated(j)
                    /\ anymail_status[j].esp_response # None
        /\ num_sent = Cardinality({j \in Indices : j < k /\ log.outcome[j] = "sent"})

\* C2 witness: the second of three messages raised, the first one is sent, the
\* error has left send_messages
C2_Witness ==
    /\ ~fail_silently
    /\ pc = "raised"
    /\ Len(batch) = 3
    /\ log.outcome[1] = "sent"
    /\ RaisedAnymailError(2)
    /\ escaped = log.outcome[2]
    /\ log.transmits = <<1, 2>>

\* message j went through _send to its end: a response was obtained and parsed,
\* and the refusal check let it pass
SendReturnedTrue(j) ==
    /\ Count(j, log.transmits) = 1
    /\ Populated(j)
    /\ anymail_status[j].esp_response # None
    /\ \/ ignore_recipient_status
       \/ ~(anymail_status[j].status.s \subseteq {"invalid", "rejected"})

\* a message with no recipient in to, cc or bcc
ZeroRecipients(message) ==
    /\ message.attrs.to.items = <<>>
    /\ message.attrs.cc.items = <<>>
    /\ message.attrs.bcc.items = <<>>

\* C3: the integer send_messages returns is the number of messages for which
\* _send returned True (response obtained, parsed, no refusal raised); a message
\* with no recipients and a message whose attempt raised contribute 0, and an
\* empty batch returns 0.
C3_ReturnedCount ==
    /\ pc = "returned" =>
          /\ num_sent = Cardinality({j \in Indices : SendReturnedTrue(j)})
          /\ batch = <<>> => num_sent = 0
    /\ \A j \in Indices : log.outcome[j] # "pending" =>
          /\ log.outcome[j] = "sent" <=> SendReturnedTrue(j)
          /\ ZeroRecipients(batch[j]) => log.outcome[j] # "sent"

\* C3 witness: of three messages one has no recipients and one raised; 1 is returned
C3_Witness ==
    /\ pc = "returned"
    /\ Len(batch) = 3
    /\ num_sent = 1
    /\ \E j \in Indices : ZeroRecipients(batch[j]) /\ log.outcome[j] = "not_sent"
    /\ \E j \in Indices : RaisedAnymailError(j)

\* the backend had a session while the batch was sent
HadSession == created_session \/ session # 0

StatusSet(j) == anymail_status[j].status.s

\* the attempt for message j has got past the refusal check or was ended by it
Checked(j) == Populated(j) /\ log.outcome[j] # "pending"

\* C5: once the response is parsed, the refusal error is raised if the status
\* set is non-empty, within {rejected, invalid}, and ignore_recipient_status is
\* off; it is never raised when the set holds one of queued, sent, delivered
\* or unknown; and it is never raised when ignore_recipient_status is on, the
\* message then counting as sent.
C5_RefusalRule ==
    \A j \in Indices : Checked(j) =>
        /\ (StatusSet(j) # {} /\ StatusSet(j) \subseteq {"rejected", "invalid"}
              /\ ~ignore_recipient_status)
             => log.outcome[j] = "AnymailRecipientsRefused"
        /\ StatusSet(j) \cap {"queued", "sent", "delivered", "unknown"} # {}
             => log.outcome[j] = "sent" /\ num_sent = 1
        /\ ignore_recipient_status
             => log.outcome[j] = "sent" /\ num_sent = 1

\* C5 witness: one recipient rejected and one invalid, the refusal was raised
C5_Witness ==
    /\ Checked(1)
    /\ StatusSet(1) = {"rejected", "invalid"}
    /\ ~ignore_recipient_status
    /\ log.outcome[1] = "AnymailRecipientsRefused"
    /\ num_sent = 0

\* C6: a message whose parsed response gives an empty status set does not raise
\* the refusal error and counts as sent.
C6_EmptyStatusSetIsSent ==
    \A j \in Indices : (Checked(j) /\ StatusSet(j) = {}) =>
        /\ log.outcome[j] = "sent"
        /\ num_sent = 1

\* C7, the states: open() is called once per non-empty batch, before the first
\* message; a session the batch created is closed exactly once, after the last
\* attempted message, however the batch ends, and no session is left; a batch
\* that did not create the session never closes it; an empty batch neither
\* opens nor closes.
C7_SessionStates ==
    /\ calls.open <= 1
    /\ pc \in {"send", "build", "post", "parse", "check", "finally"} =>
          calls.open = 1 /\ calls.close = 0
    /\ log.attempts # <<>> => calls.open = 1
    /\ batch = <<>> => calls.open = 0 /\ calls.close = 0
    /\ (created_session /\ Ended) => calls.close = 1 /\ session = 0
    /\ ~created_session => calls.close = 0

\* C7, the steps: a session that was open before the batch stays the same
\* session through every step of the batch.
C7_SessionKept ==
    (session # 0 /\ ~created_session') => session' = session

\* C7: the batch opens once, closes exactly the session it created, and leaves
\* a session that was already open untouched and open.
C7_SessionLifecycle == [] C7_SessionStates /\ [][C7_SessionKept]_vars

\* C7 witness: an error propagates, and the session the batch created is closed
C7_Witness ==
    /\ pc = "raised"
    /\ IsAnymailError(escaped)
    /\ created_session
    /\ calls.close = 1
    /\ session = 0
    /\ log.attempts # <<>>

\* the credentials the adapter needs are missing from the settings
MissingCredentials ==
    \/ /\ esp_name = "SendGrid"
       /\ "api_key" \notin settings.creds
       /\ ~({"username", "password"} \subseteq settings.creds)
    \/ /\ esp_name = "Mailgun"
       /\ "api_key" \notin settings.creds

\* C8: constructing a backend whose credentials are missing raises a
\* configuration error that is not an AnymailError; it leaves the constructor
\* whatever fail_silently is, and no message is attempted.
C8_ConfigurationError ==
    (MissingCredentials /\ pc # "start") =>
        /\ pc = "raised"
        /\ escaped = "AnymailConfigurationError"
        /\ ~IsAnymailError(escaped)
        /\ ~Swallowed(escaped)
        /\ log.attempts = <<>>
        /\ calls.open = 0
        /\ num_sent = 0

\* C8 witness: SendGrid with a username and no password, fail_silently on
C8_Witness ==
    /\ esp_name = "SendGrid"
    /\ settings.creds = {"username"}
    /\ fail_silently
    /\ pc = "raised"
    /\ escaped = "AnymailConfigurationError"

\* the fields the message's value overrides the default of
OverrideFields ==
    {"from_email", "subject", "body", "send_at", "track_clicks", "track_opens",
     "template_id"}

\* the fields whose default and message values are joined
SequenceFields == {"to", "cc", "bcc", "reply_to", "tags", "alternatives", "attachments"}

MapFields == {"metadata", "extra_headers", "merge_data", "merge_global_data", "esp_extra"}

\* the message whose payload is built
TheMessage == batch[1]

\* the value the settings give a field: the ESP's default if it has one, else
\* the global one, else UNSET
SettingsDefault(attr) ==
    IF settings.esp_send_defaults # None /\ attr \in DOMAIN settings.esp_send_defaults.m
    THEN settings.esp_send_defaults.m[attr]
    ELSE IF attr \in DOMAIN settings.send_defaults
    THEN settings.send_defaults[attr]
    ELSE UNSET

\* the message's value if it sets the field, else the value of the settings
FirstPresent(attr) ==
    IF attr \in DOMAIN TheMessage.attrs THEN TheMessage.attrs[attr]
    ELSE SettingsDefault(attr)

\* the canonical form the table's converter gives a field's value
Canonical(attr, value) ==
    Convert((CHOOSE e \in {message_attrs[n] : n \in 1..Len(message_attrs)} :
                e[1] = attr)[3], value)

\* the positions in payload.calls of the calls of a field's setter
SetterCalls(attr) ==
    {n \in 1..Len(payload.calls) :
        payload.calls[n].setter = SetterFor(attr, TheMessage)}

\* the payload of the message has been built
Built == payload # None /\ Len(log.builds) = 1

\* C9: for an override field the setter receives the message's value if the
\* message sets it, else the ESP's default, else the global default, in the
\* field's canonical form; if none of the three is present the setter is not
\* called; and a build that ends without error has called it exactly once.
C9_OverrideFields ==
    Built => \A attr \in OverrideFields :
        /\ \A n \in SetterCalls(attr) :
              /\ FirstPresent(attr) # UNSET
              /\ payload.calls[n].value = Canonical(attr, FirstPresent(attr))
        /\ (FirstPresent(attr) # UNSET /\ payload.error = "none")
              => Cardinality(SetterCalls(attr)) = 1
        /\ attr = "body" =>
              \A n \in 1..Len(payload.calls) :
                  payload.calls[n].setter # (IF TheMessage.content_subtype = "html"
                                             THEN "set_text_body" ELSE "set_html_body")

\* C9 witness: the message has no subject, both layers of defaults have one, and
\* set_subject was called with the ESP's
C9_Witness ==
    /\ Built
    /\ payload.error = "none"
    /\ "subject" \notin DOMAIN TheMessage.attrs
    /\ "subject" \in DOMAIN settings.send_defaults
    /\ settings.esp_send_defaults # None
    /\ "subject" \in DOMAIN settings.esp_send_defaults.m
    /\ settings.esp_send_defaults.m.subject # settings.send_defaults.subject
    /\ \E n \in SetterCalls("subject") :
          payload.calls[n].value = settings.esp_send_defaults.m.subject

\* C10: for a concatenate field that the message and the defaults both set, the
\* setter receives, for a sequence field, the default's items followed by the
\* message's items with duplicates kept, and for a map field, the default map
\* laid under the message's map, the message winning on shared keys; a build
\* that ends without error has called the setter exactly once.
C10_ConcatenateFields ==
    Built => \A attr \in SequenceFields \cup MapFields :
        LET d == SettingsDefault(attr)
            m == TheMessage.attrs[attr]
            joined ==
                IF attr \in SequenceFields
                THEN List(d.items \o m.items)
                ELSE Dict([k \in DOMAIN d.m \cup DOMAIN m.m |->
                              IF k \in DOMAIN m.m THEN m.m[k] ELSE d.m[k]])
        IN  (attr \in DOMAIN TheMessage.attrs /\ d # UNSET) =>
               /\ \A n \in SetterCalls(attr) :
                     payload.calls[n].value = Canonical(attr, joined)
               /\ payload.error = "none" => Cardinality(SetterCalls(attr)) = 1

\* C10 witness: the global defaults and the message both give tags and share
\* one; set_tags received the default's tags, then the message's
C10_Witness ==
    /\ Built
    /\ payload.error = "none"
    /\ "tags" \in DOMAIN TheMessage.attrs
    /\ TheMessage.attrs.tags = List(<<"t1", "t2">>)
    /\ SettingsDefault("tags") = List(<<"t3", "t1">>)
    /\ \E n \in SetterCalls("tags") :
          payload.calls[n].value = List(<<"t3", "t1", "t1", "t2">>)

\* the backend has been constructed
Constructed == pc # "start" /\ escaped # "AnymailConfigurationError"

\* C11, the result: the effective defaults have the keys of both maps; a key
\* of the ESP defaults has the ESP's value as a whole, every other key the
\* global value.
C11_EffectiveDefaults ==
    Constructed =>
        LET g == settings.send_defaults
            e == IF settings.esp_send_defaults = None THEN << >>
                 ELSE settings.esp_send_defaults.m
        IN  /\ DOMAIN send_defaults = DOMAIN g \cup DOMAIN e
            /\ \A k \in DOMAIN e : send_defaults[k] = e[k]
            /\ \A k \in DOMAIN g \ DOMAIN e : send_defaults[k] = g[k]

\* C11, the frame: no step changes the global or the ESP defaults map.
C11_InputsKept == settings' = settings

\* C11: the effective defaults are the global defaults shallowly overwritten by
\* the ESP defaults, and computing them modifies neither map.
C11_ShallowMerge == [] C11_EffectiveDefaults /\ [][C11_InputsKept]_vars

\* C11 witness: both maps give tags, only the global one gives metadata; the
\* effective tags are the ESP's alone and the global map still has its own
C11_Witness ==
    /\ Constructed
    /\ settings.esp_send_defaults # None
    /\ DOMAIN settings.esp_send_defaults.m = {"tags"}
    /\ DOMAIN settings.send_defaults = {"tags", "metadata"}
    /\ send_defaults.tags = List(<<"t2">>)
    /\ send_defaults.metadata = settings.send_defaults.metadata
    /\ settings.send_defaults.tags = List(<<"t3", "t1">>)

\* the extended fields and their setters
ExtendedFields ==
    {"metadata", "send_at", "tags", "track_clicks", "track_opens", "template_id",
     "merge_data", "merge_global_data", "esp_extra"}

ExtendedSetters == {SetterFor(attr, PlainMsg) : attr \in ExtendedFields}

\* a payload has been built, and this is the message it was built from
HasPayload == payload # None /\ log.builds # <<>>

PayloadIndex == log.builds[Len(log.builds)]

\* neither message j nor the effective defaults set an extended field
NoExtendedField(j) ==
    \A attr \in ExtendedFields :
        attr \notin DOMAIN batch[j].attrs /\ attr \notin DOMAIN send_defaults

\* the form fields the standard fields of a message are sent in
StandardDataKeys ==
    {"from", "fromname", "to", "toname", "cc", "ccname", "bcc", "bccname", "subject",
     "text", "html", "headers"}

\* C12: a payload built from a message that sets no extended field, with
\* effective defaults that have none, has received no call of an extended
\* setter, and the request carries no option for those fields: the form data
\* has the standard fields only (and SendGrid's x-smtpapi once it is
\* serialized), and SendGrid's smtpapi holds nothing but the smtp-id that
\* serialize_data derives from the Message-ID.
C12_NoExtendedOptions ==
    (HasPayload /\ NoExtendedField(PayloadIndex)) =>
        /\ \A n \in 1..Len(payload.calls) : payload.calls[n].setter \notin ExtendedSetters
        /\ DOMAIN payload.data \subseteq StandardDataKeys \cup {"x-smtpapi"}
        /\ DOMAIN payload.smtpapi \subseteq {"unique_args"}
        /\ "unique_args" \in DOMAIN payload.smtpapi =>
              DOMAIN payload.smtpapi.unique_args = {"smtp-id"}

\* C12 witness: the plain message was sent through Mailgun without any option
C12_Witness ==
    /\ esp_name = "Mailgun"
    /\ pc = "returned"
    /\ batch = <<PlainMsg>>
    /\ log.outcome[1] = "sent"
    /\ NoExtendedField(1)
    /\ DOMAIN payload.data = {"from", "to", "subject", "text"}

\* the number of html parts of a message: its body when the main content is
\* html, and every text/html alternative
HtmlParts(message) ==
    (IF message.content_subtype = "html" THEN 1 ELSE 0)
    + (IF "alternatives" \in DOMAIN message.attrs
       THEN Count("text/html", [n \in 1..Len(message.attrs.alternatives.items) |->
                                    message.attrs.alternatives.items[n].mimetype])
       ELSE 0)

\* a field of message j, or of the effective defaults, that the adapter has no
\* setter for
UnsupportedField(j) ==
    \E attr \in DOMAIN batch[j].attrs \cup DOMAIN send_defaults :
        /\ SetterFor(attr, batch[j]) \in DOMAIN BaseUnsupported
        /\ SetterFor(attr, batch[j]) \notin Overridden(esp_name)

\* an alternative part of message j that is not html
NonHtmlAlternative(j) ==
    /\ "alternatives" \in DOMAIN batch[j].attrs
    /\ \E n \in 1..Len(batch[j].attrs.alternatives.items) :
           batch[j].attrs.alternatives.items[n].mimetype # "text/html"

\* a second html part, for the adapters that send one html body
SecondHtmlPart(j) == esp_name \in {"Mailgun", "SendGrid"} /\ HtmlParts(batch[j]) > 1

UnsupportedItem(j) == UnsupportedField(j) \/ NonHtmlAlternative(j) \/ SecondHtmlPart(j)

\* the messages a payload was built for, and those that were transmitted
BuiltFor == {log.builds[n] : n \in 1..Len(log.builds)}

Transmitted == {log.transmits[n] : n \in 1..Len(log.transmits)}

\* C13: with ignore_unsupported_features off, building the payload of a
\* message with an unsupported item (a field the adapter has no setter for, an
\* alternative that is not html, a second html part) raises
\* AnymailUnsupportedFeature and the message is never transmitted; the error
\* ends send_messages, except in fail_silently mode, where it does not leave
\* send_messages and the message is not counted as sent.
C13_UnsupportedRaises ==
    \A j \in BuiltFor :
        (~ignore_unsupported_features /\ UnsupportedItem(j)) =>
            /\ log.outcome[j] = "AnymailUnsupportedFeature"
            /\ j \notin Transmitted
            /\ IF fail_silently THEN escaped # "AnymailUnsupportedFeature"
                                 ELSE escaped # "none"
            /\ fail_silently =>
                  num_sent = Cardinality({k \in Indices \ {j} : log.outcome[k] = "sent"})

\* C13 witness: in fail_silently mode the message with two html alternatives
\* raised while building, was not transmitted and not counted, and the plain
\* message after it was sent
C13_Witness ==
    /\ esp_name = "Mailgun"
    /\ ~ignore_unsupported_features
    /\ fail_silently
    /\ pc = "returned"
    /\ batch = <<TwoHtmlMsg, PlainMsg>>
    /\ log.outcome = <<"AnymailUnsupportedFeature", "sent">>
    /\ log.transmits = <<2>>
    /\ num_sent = 1

\* the subsequence of s at the indices in K
RECURSIVE Pick(_, _)
Pick(s, K) ==
    IF s = <<>> THEN <<>>
    ELSE Pick(SubSeq(s, 1, Len(s) - 1), K)
         \o (IF Len(s) \in K THEN <<s[Len(s)]>> ELSE <<>>)

\* the alternatives the adapter can send: the html ones, and for the adapters
\* that send one html body only the first html part of the message
SupportedAlternatives(message) ==
    LET alts == message.attrs.alternatives.items
        HtmlBefore(n) == HtmlParts([message EXCEPT
                             !.attrs.alternatives.items = SubSeq(alts, 1, n - 1)])
    IN  Pick(alts, {n \in 1..Len(alts) :
                        /\ alts[n].mimetype = "text/html"
                        /\ esp_name \in {"Mailgun", "SendGrid"} => HtmlBefore(n) = 0})

\* the attachments the adapter can send: for SendGrid the first of each filename
SupportedAttachments(message) ==
    LET atts == message.attrs.attachments.items
    IN  Pick(atts, {n \in 1..Len(atts) :
                        esp_name = "SendGrid" =>
                            \A k \in 1..(n - 1) : atts[k].name # atts[n].name})

\* the fields of a map the adapter has a setter for
SupportedFields(m) ==
    {attr \in DOMAIN m : SetterFor(attr, PlainMsg) \in DOMAIN BaseUnsupported
                            => SetterFor(attr, PlainMsg) \in Overridden(esp_name)}

\* message j without its unsupported items
WithoutUnsupported(j) ==
    LET message == batch[j]
        kept    == [attr \in SupportedFields(message.attrs) |-> message.attrs[attr]]
        alts    == IF "alternatives" \in DOMAIN kept
                   THEN [kept EXCEPT !.alternatives.items = SupportedAlternatives(message)]
                   ELSE kept
        atts    == IF "attachments" \in DOMAIN alts
                   THEN [alts EXCEPT !.attachments.items = SupportedAttachments(message)]
                   ELSE alts
    IN  [message EXCEPT !.attrs = atts]

\* the payload message j would have had without its unsupported items
PayloadWithoutUnsupported(j) ==
    build_message_payload(WithoutUnsupported(j),
                          [attr \in SupportedFields(send_defaults) |-> send_defaults[attr]],
                          Backend)

\* a filename used by two attachments of message j, for SendGrid
RepeatedFilename(j) ==
    /\ esp_name = "SendGrid"
    /\ "attachments" \in DOMAIN batch[j].attrs
    /\ SupportedAttachments(batch[j]) # batch[j].attrs.attachments.items

\* the payload of message j has just been built
JustBuilt(j) == pc = "post" /\ idx = j /\ HasPayload

\* C14: with ignore_unsupported_features on, the payload of a message with an
\* unsupported item is built without error, and its form data and files are
\* those of the payload the message would have had without the unsupported
\* item: a second html part, or a SendGrid attachment with a filename already
\* used, does not replace the value set earlier.
C14_IgnoredFeatureDropped ==
    \A j \in Indices :
        (JustBuilt(j) /\ ignore_unsupported_features
           /\ (UnsupportedItem(j) \/ RepeatedFilename(j))) =>
            /\ payload.error = "none"
            /\ payload.data = PayloadWithoutUnsupported(j).data
            /\ payload.files = PayloadWithoutUnsupported(j).files

\* the mailboxes of an address list
MailboxesOf(addresses) == {addresses.items[n].mailbox : n \in 1..Len(addresses.items)}

\* the distinct mailboxes among the effective to, cc and bcc of message j: those
\* of the message and those of the send defaults
EffectiveMailboxes(j) ==
    UNION {MailboxesOf(batch[j].attrs[attr]) : attr \in {"to", "cc", "bcc"}}
    \cup
    UNION {MailboxesOf(send_defaults[attr]) : attr \in {"to", "cc", "bcc"} \cap DOMAIN send_defaults}

\* the attempt for message j ended with _send returning True
Sent(j) == log.outcome[j] = "sent"

\* C15: after a successful send the Status of the message holds the 200
\* response that was received, one recipient entry per distinct mailbox of the
\* effective to, cc and bcc (Mailgun and SendGrid), the set of the recipients'
\* statuses and the message id they all carry; for Mailgun, whose id is the
\* response's, and SendGrid, whose id is the payload's Message-ID, the status
\* set is {queued}.
C15_StatusAfterSend ==
    \A j \in Indices : Sent(j) =>
        LET st == anymail_status[j]
        IN  /\ st.esp_response # None
            /\ st.esp_response.status_code = 200
            /\ j = log.transmits[Len(log.transmits)] => st.esp_response = response
            /\ st.status = [t |-> "set", s |-> {st.recipients[r].status : r \in DOMAIN st.recipients}]
            /\ \A r \in DOMAIN st.recipients : st.recipients[r].message_id = st.message_id
            /\ esp_name \in {"Mailgun", "SendGrid"} =>
                  /\ DOMAIN st.recipients = EffectiveMailboxes(j)
                  /\ st.status.s = {"queued"}
                  /\ st.message_id = IF esp_name = "Mailgun"
                                     THEN Str(st.esp_response.body.m.id)
                                     ELSE Str("<Message-ID>")

\* C15 witness: Mailgun has sent the message whose to and cc share a mailbox,
\* with two more bcc recipients from the defaults: five recipient entries
C15_Witness ==
    /\ esp_name = "Mailgun"
    /\ batch = <<RecipientsMsg>>
    /\ pc = "returned"
    /\ Sent(1)
    /\ "bcc" \in DOMAIN send_defaults
    /\ Cardinality(DOMAIN anymail_status[1].recipients) = 5
    /\ anymail_status[1].status.s = {"queued"}
    /\ anymail_status[1].message_id = Str("<id>")

\* the message of the latest transmit, whose answer is `response`
LastTransmit == log.transmits[Len(log.transmits)]

\* the messages parse_recipient_status was called for
Parsed == {log.parses[n] : n \in 1..Len(log.parses)}

\* C16: when the ESP answers a transmit with a status code other than 200, the
\* attempt raises AnymailRequestsAPIError carrying that response and its status
\* code, parse_recipient_status is not called for the message, and the Status of
\* the message has its initial values, the raw response included.
C16_Non200 ==
    (log.transmits # <<>> /\ response.status_code # 200) =>
        /\ log.outcome[LastTransmit] = "AnymailRequestsAPIError"
        /\ log.raised[LastTransmit].response = response
        /\ log.raised[LastTransmit].status_code = response.status_code
        /\ LastTransmit \notin Parsed
        /\ anymail_status[LastTransmit] = AnymailStatus

\* C16 witness: in fail_silently mode Mailgun answered 202 to the only message;
\* nothing was sent and the Status is the initial one
C16_Witness ==
    /\ esp_name = "Mailgun"
    /\ fail_silently
    /\ pc = "returned"
    /\ batch = <<PlainMsg>>
    /\ response.status_code = 202
    /\ num_sent = 0
    /\ anymail_status[1].esp_response = None
    /\ log.raised[1].status_code = 202

\* the body of a response is JSON of the adapter's success shape
SuccessShape(resp) ==
    /\ resp.body.t = "json"
    /\ esp_name = "Mailgun" =>
          /\ {"id", "message"} \subseteq DOMAIN resp.body.m
          /\ resp.body.m.message.t = "text"
          /\ resp.body.m.message.pieces # <<>>
          /\ Head(resp.body.m.message.pieces) = "Queued"
    /\ esp_name = "SendGrid" =>
          /\ "message" \in DOMAIN resp.body.m
          /\ resp.body.m.message = "success"

\* C17: when Mailgun or SendGrid answers 200 with a body that is not JSON or
\* not of the success shape (Mailgun: an id and a message that starts with
\* "Queued"; SendGrid: the message "success"), parsing raises
\* AnymailRequestsAPIError carrying the response, the message is not counted as
\* sent, and its Status has no status, no message id and no recipients, while
\* esp_response is the response received.
C17_UnparsableResponse ==
    (/\ esp_name \in {"Mailgun", "SendGrid"}
     /\ log.transmits # <<>>
     /\ LastTransmit \in Parsed
     /\ response.status_code = 200
     /\ ~SuccessShape(response)) =>
        /\ log.outcome[LastTransmit] = "AnymailRequestsAPIError"
        /\ log.raised[LastTransmit].response = response
        /\ num_sent = Cardinality({k \in Indices \ {LastTransmit} : Sent(k)})
        /\ anymail_status[LastTransmit] = [AnymailStatus EXCEPT !.esp_response = response]

\* message j has a Status: an attempt for it got past the session check
HasStatus(j) == anymail_status[j] # None

\* parse_recipient_status has returned a recipient map for message j
ParsedOk(j) ==
    j \in Parsed /\ log.outcome[j] \in {"pending", "sent", "AnymailRecipientsRefused"}

\* post_to_esp has returned a response for message j
Answered(j) ==
    j \in Transmitted /\ (log.outcome[j] = "AnymailRequestsAPIError" => j \in Parsed)

\* C18 as claimed: until parse_recipient_status has returned successfully for a
\* message, every field of its Status, the raw response included, has its
\* initial value.
C18_InitialUntilParsed ==
    \A j \in Indices : (HasStatus(j) /\ ~ParsedOk(j)) => anymail_status[j] = AnymailStatus

\* the Status of every message with one: initial until post_to_esp has returned,
\* then the raw response only, and status, message id and recipients as well
\* once the response is parsed
C18_StatusStages ==
    \A j \in Indices : HasStatus(j) =>
        LET st == anymail_status[j]
        IN  /\ ~Answered(j) => st = AnymailStatus
            /\ Answered(j) =>
                  /\ st.esp_response # None
                  /\ st.esp_response.status_code = 200
                  /\ j = LastTransmit => st.esp_response = response
            /\ (Answered(j) /\ ~ParsedOk(j)) =>
                  st = [AnymailStatus EXCEPT !.esp_response = st.esp_response]
            /\ ParsedOk(j) => st.status # None

\* a step changes the Status of a message in one of three ways: the attempt
\* starts and the Status is fresh, post_to_esp returns and the raw response is
\* set in a Status that was initial, or the response is parsed and the other
\* fields are set in a Status that had the raw response only
C18_StatusStep ==
    \A j \in Indices : anymail_status'[j] # anymail_status[j] =>
        /\ j = idx
        /\ \/ pc = "send" /\ anymail_status'[j] = AnymailStatus
           \/ /\ pc = "post"
              /\ anymail_status[j] = AnymailStatus
              /\ anymail_status'[j] = [AnymailStatus EXCEPT !.esp_response = response']
           \/ /\ pc = "parse"
              /\ anymail_status[j] = [AnymailStatus EXCEPT !.esp_response = response]
              /\ anymail_status'[j].esp_response = response
              /\ anymail_status'[j].status # None

\* C18 (amended): within one attempt the Status is initial until post_to_esp has
\* returned a 200 response; the raw response is then set, before parsing; status,
\* message id and recipients are set once, after parse_recipient_status has
\* returned successfully; no field is modified again during the attempt.
C18_MutatedInTwoSteps == [] C18_StatusStages /\ [][C18_StatusStep]_vars

\* C18 witness: the response has been received and is about to be parsed; the
\* Status holds the raw response and nothing else
C18_Witness ==
    /\ pc = "parse"
    /\ HasStatus(idx)
    /\ anymail_status[idx].esp_response = response
    /\ anymail_status[idx].status = None
    /\ anymail_status[idx].recipients = << >>

\* the messages an attempt was made for
Attempted == {log.attempts[n] : n \in 1..Len(log.attempts)}

\* the attempt for message j has ended and post_to_esp returned no response in it
EndedWithoutResponse(j) ==
    j \in Attempted /\ log.outcome[j] # "pending" /\ ~Answered(j)

\* C19: every attempt replaces the Status of its message by a fresh one, so a
\* message that carried the Status of an earlier, successful attempt and whose
\* new attempt ends before a response (it has no recipients, its payload cannot
\* be built, the ESP answers with an error) is left with the initial Status:
\* no status, no message id, no recipients, no response.
C19_StatusOfThisAttempt ==
    \A j \in Indices : EndedWithoutResponse(j) => anymail_status[j] = AnymailStatus

\* the payload of message j was built without error and the attempt has moved
\* on to the transmit
BuiltOk(j) ==
    /\ j \in BuiltFor
    /\ log.outcome[j] # "AnymailUnsupportedFeature"
    /\ ~(pc = "post" /\ idx = j)

\* the attempts so far are those for messages 1, 2, ... in this order, one each;
\* the transmits are in the same order, at most one for a message and exactly one
\* for a message whose payload was built; and a message is transmitted only after
\* the attempts for all messages before it have ended
C20_InOrder ==
    /\ log.attempts = [n \in 1..Len(log.attempts) |-> n]
    /\ \A m, n \in 1..Len(log.transmits) : m < n => log.transmits[m] < log.transmits[n]
    /\ \A j \in Indices :
          /\ Count(j, log.transmits) <= 1
          /\ BuiltOk(j) => Count(j, log.transmits) = 1
          /\ j \in Transmitted => \A i \in 1..(j - 1) : log.outcome[i] # "pending"
          /\ j \in Transmitted => j \in BuiltFor /\ ~no_recipients(batch[j])

\* a step that transmits does so for the message being attempted, which has not
\* been transmitted before, while no attempt for an earlier message is open
C20_TransmitStep ==
    log.transmits' # log.transmits =>
        /\ log.transmits' = Append(log.transmits, idx)
        /\ idx \notin Transmitted
        /\ log.attempts[Len(log.attempts)] = idx
        /\ \A i \in 1..(idx - 1) : log.outcome[i] # "pending"

\* C20: the messages of a batch are attempted one after another in the caller's
\* order; each is transmitted at most once, and exactly once when its payload
\* was built and it has recipients; the transmit for a message never starts
\* before the attempts for the messages before it have ended; nothing is
\* transmitted twice or tried again.
C20_OneTransmitInOrder == [] C20_InOrder /\ [][C20_TransmitStep]_vars

\* C20 witness: three messages were transmitted in order, once each, although
\* the second attempt failed with a swallowed API error
C20_Witness ==
    /\ pc = "returned"
    /\ Len(batch) = 3
    /\ log.attempts = <<1, 2, 3>>
    /\ log.transmits = <<1, 2, 3>>
    /\ log.outcome = <<"sent", "AnymailRequestsAPIError", "sent">>
    /\ num_sent = 2


\* message j sets merge_data or merge_global_data
SetsMergeData(j) ==
    "merge_data" \in DOMAIN batch[j].attrs \/ "merge_global_data" \in DOMAIN batch[j].attrs

\* the payload is that of message j as post_to_esp serialized it
SerializedFor(j) ==
    /\ HasPayload /\ PayloadIndex = j
    /\ log.transmits # <<>> /\ LastTransmit = j

\* a map field of message j, empty when the message does not set it
MapOf(j, attr) ==
    IF attr \in DOMAIN batch[j].attrs THEN batch[j].attrs[attr].m ELSE << >>

\* C21: through Mailgun, the payload of a message that sets merge_data or
\* merge_global_data is built without an unsupported-feature report, and the form
\* data transmitted has a 'recipient-variables' field that gives every To
\* mailbox the global merge data overlaid with the mailbox's own merge data.
C21_RecipientVariables ==
    \A j \in Indices :
        (esp_name = "Mailgun" /\ SetsMergeData(j) /\ j \in BuiltFor) =>
            /\ log.outcome[j] # "AnymailUnsupportedFeature"
            /\ SerializedFor(j) =>
                  /\ payload.dropped = <<>>
                  /\ "recipient-variables" \in DOMAIN payload.data
                  /\ LET rv   == payload.data["recipient-variables"].of.m
                         own  == MapOf(j, "merge_data")
                     IN  \A email \in MailboxesOf(batch[j].attrs.to) :
                            /\ email \in DOMAIN rv
                            /\ rv[email] =
                                 DictUpdate(MapOf(j, "merge_global_data"),
                                            IF email \in DOMAIN own THEN own[email]
                                            ELSE << >>)

\* the esp_extra in effect for message j: the send defaults' map with the
\* message's map laid over it
EffectiveEspExtra(j) ==
    DictUpdate(IF "esp_extra" \in DOMAIN send_defaults THEN send_defaults.esp_extra.m
               ELSE << >>,
               MapOf(j, "esp_extra"))

\* the mailbox of message j's from_email has a domain part
FromHasDomain(j) == Len(split_at(batch[j].attrs.from_email.mailbox)) = 2

\* the sender domain the claim names for message j
ExpectedSenderDomain(j) ==
    IF "sender_domain" \in DOMAIN EffectiveEspExtra(j)
    THEN EffectiveEspExtra(j).sender_domain
    ELSE split_at(batch[j].attrs.from_email.mailbox)[2]

\* C22: every request of the Mailgun adapter goes to '<sender_domain>/messages',
\* where sender_domain is the entry of the effective esp_extra if it has one
\* (whatever the domain of from_email is) and else the domain part of from_email;
\* the form data of the request has no key 'sender_domain'; and the attempt of a
\* message for which one of the two gives a domain does not fail for an unknown
\* sender domain.
C22_SenderDomain ==
    esp_name = "Mailgun" =>
        /\ \A n \in 1..Len(log.requests) :
              LET r == log.requests[n]
              IN  /\ r.endpoint = Str(ExpectedSenderDomain(r.message) \o "/messages")
                  /\ "sender_domain" \notin DOMAIN r.data
        /\ \A j \in Indices :
              log.outcome[j] = "AnymailError" =>
                  /\ "sender_domain" \notin DOMAIN EffectiveEspExtra(j)
                  /\ ~FromHasDomain(j)

\* a request was made for a message whose from_email has a domain while the
\* message's esp_extra names another sender domain, and one for a message
\* without esp_extra
C22_Witness ==
    /\ esp_name = "Mailgun"
    /\ \E n \in 1..Len(log.requests) :
          LET j == log.requests[n].message
          IN  /\ FromHasDomain(j)
              /\ "sender_domain" \in DOMAIN MapOf(j, "esp_extra")
              /\ log.requests[n].endpoint = Str("esp-extra.example.com/messages")
    /\ \E n \in 1..Len(log.requests) :
          /\ EffectiveEspExtra(log.requests[n].message) = << >>
          /\ log.requests[n].endpoint = Str("from-email.example.com/messages")

\* the send_at the pipeline starts from: the message's if it sets one, else the
\* send defaults'
SendAtInput ==
    IF "send_at" \in DOMAIN TheMessage.attrs THEN TheMessage.attrs.send_at
    ELSE DictGet(send_defaults, "send_at", UNSET)

\* the values handed to set_send_at while the payload was built
SendAtCalls == {payload.calls[n].value : n \in SetterCalls("send_at")}

\* C23: the send_at converter returns a datetime that has a zone as it is,
\* gives a datetime without zone the current zone, turns a date into midnight
\* of that date in the current zone and an integer or float timestamp into the
\* UTC datetime that many seconds after the epoch, and returns any other value
\* as it is; in the first four cases the result is a datetime with a zone.
C23_SendAtConverter ==
    (Built /\ SendAtInput # UNSET) =>
        \E r \in SendAtCalls :
            LET v == SendAtInput
            IN  /\ SendAtCalls = {r}
                /\ CASE v.t = "datetime" /\ v.tz # "naive" -> r = v
                     [] v.t = "datetime" /\ v.tz = "naive" ->
                          r = [v EXCEPT !.tz = CurrentTimezone]
                     [] v.t = "date" ->
                          r = [t |-> "datetime", day |-> v.day, sec |-> 0,
                               tz |-> CurrentTimezone]
                     [] v.t \in {"int", "float"} ->
                          /\ r.t = "datetime" /\ r.tz = "utc"
                          /\ r.sec \in 0..(DaySeconds - 1)
                          /\ r.day * DaySeconds + r.sec = v.n
                          /\ v.t = "float" => r.us = v.us
                     [] OTHER -> r = v
                /\ v.t \in {"datetime", "date", "int", "float"} =>
                      r.t = "datetime" /\ r.tz # "naive"

\* a payload was built from a send_at without zone: a naive datetime or a date
C23_Witness ==
    /\ Built /\ SendAtInput # UNSET /\ SendAtCalls # {}
    /\ \/ SendAtInput.t = "datetime" /\ SendAtInput.tz = "naive"
       \/ SendAtInput.t = "date"

\* the messages an HTTP request was issued for
Requested == {log.requests[n].message : n \in 1..Len(log.requests)}

\* C24: when the attempt for a message raises AnymailSerializationError, no
\* request was issued for the message, no response was parsed for it, and its
\* Status has the initial values; in fail_silently mode the error does not leave
\* send_messages, the message is not counted and the messages after it are
\* attempted; otherwise the error ends the batch at this message.
C24_SerializationError ==
    \A j \in Indices : log.outcome[j] = "AnymailSerializationError" =>
        /\ j \notin Requested
        /\ j \notin Parsed
        /\ anymail_status[j] = AnymailStatus
        /\ IF fail_silently
           THEN /\ escaped = "none"
                /\ idx > j
                /\ num_sent <= Cardinality({k \in Indices : k # j /\ k \in Requested})
                /\ pc \in {"finally", "returned"} =>
                      /\ \A k \in Indices : log.outcome[k] # "pending"
                      /\ num_sent = Cardinality({k \in Indices : log.outcome[k] = "sent"})
           ELSE /\ idx = j
                /\ pc \in {"finally", "raised"}
                /\ \A k \in Indices : k > j => log.outcome[k] = "pending"

\* in fail_silently mode the first of two messages could not be serialized, the
\* second one was sent, and send_messages returned 1
C24_Witness ==
    /\ fail_silently
    /\ pc = "returned"
    /\ Len(batch) = 2
    /\ log.outcome[1] = "AnymailSerializationError"
    /\ log.outcome[2] = "sent"
    /\ Requested = {2}
    /\ num_sent = 1

\* the payload build_message_payload gives now for the message the payload in
\* hand was built for
BuiltAgain == build_message_payload(batch[PayloadIndex], send_defaults, Backend)

\* C25, the payloads: the payload in hand is the one a second build from the
\* message and the send defaults gives, or that payload serialized.
C25_SameFieldValues ==
    HasPayload => payload \in {BuiltAgain, serialize_data(BuiltAgain, Backend)}

\* C25, the inputs: once the backend is constructed no step changes the send
\* defaults, and no step changes a message of the batch.
C25_InputsKept ==
    /\ batch' = batch
    /\ pc # "start" => send_defaults' = send_defaults

BodyCalls ==
    {n \in 1..Len(payload.calls) :
        payload.calls[n].setter \in {"set_html_body", "set_text_body"}}

\* message j has a text/html alternative
HasHtmlAlternative(j) ==
    /\ "alternatives" \in DOMAIN batch[j].attrs
    /\ \E n \in 1..Len(batch[j].attrs.alternatives.items) :
          batch[j].attrs.alternatives.items[n].mimetype = "text/html"

\* C26: the pipeline hands the body of a message to exactly one setter,
\* set_html_body if the content subtype is "html" and set_text_body otherwise;
\* the request for an html message without alternatives has an html field and
\* no text field; and an html message with a text/html alternative is reported
\* as "multiple html parts": the build raises AnymailUnsupportedFeature and no
\* request is made, or, with ignore_unsupported_features, the report is dropped.
C26_BodyDispatch ==
    /\ HasPayload =>
          LET j == PayloadIndex
              html == batch[j].content_subtype = "html"
          IN  /\ \E n \in BodyCalls :
                    /\ BodyCalls = {n}
                    /\ payload.calls[n].setter =
                          IF html THEN "set_html_body" ELSE "set_text_body"
                    /\ payload.calls[n].value = batch[j].attrs.body
              /\ (html /\ HasHtmlAlternative(j)) =>
                    IF ignore_unsupported_features
                    THEN /\ payload.error = "none"
                         /\ payload.dropped = <<"multiple html parts">>
                    ELSE /\ payload.error = "AnymailUnsupportedFeature"
                         /\ j \notin Requested
              /\ (html /\ ~HasHtmlAlternative(j)) =>
                    payload.error = "none" /\ payload.dropped = <<>>
    /\ \A n \in 1..Len(log.requests) :
          LET j == log.requests[n].message
          IN  (batch[j].content_subtype = "html" /\ ~HasHtmlAlternative(j)) =>
                  /\ log.requests[n].data.html = batch[j].attrs.body
                  /\ "text" \notin DOMAIN log.requests[n].data

\* an html-only message was sent: its request has the html part and no text
\* part
C26_Witness ==
    /\ batch[1] = HtmlMsg
    /\ log.outcome[1] = "sent"
    /\ log.requests # <<>>
    /\ log.requests[1].data.html = Str("<p>body</p>")
    /\ "text" \notin DOMAIN log.requests[1].data

\* the attempt for message j raised the refusal error
Refused(j) == log.outcome[j] = "AnymailRecipientsRefused"

\* C27: from the moment the refusal error is raised for a message, and for as
\* long as send_messages runs and after it has ended, the Status of the message
\* holds the response the error carries, one entry per recipient of that
\* response with the status and message id the response gives, and the set of
\* those statuses; the message is not counted as sent, and the error leaves
\* send_messages unless fail_silently is set.
C27_RefusedStatusPopulated ==
    \A j \in Indices : Refused(j) =>
        LET st   == anymail_status[j]
            resp == log.raised[j].response
            body == resp.body
        IN  /\ resp # None /\ resp.status_code = 200
            /\ st.esp_response = resp
            /\ DOMAIN st.recipients = DOMAIN body.statuses
            /\ \A r \in DOMAIN body.statuses :
                  st.recipients[r] = AnymailRecipientStatus(body.id, body.statuses[r])
            /\ st.status = [t |-> "set", s |-> {body.statuses[r] : r \in DOMAIN body.statuses}]
            /\ st.status.s \subseteq {"rejected", "invalid"}
            /\ st.status.s # {} => st.message_id = body.id
            /\ num_sent <= Cardinality({k \in Indices \ {j} : log.outcome[k] = "sent"})
            /\ IF fail_silently
               THEN idx > j /\ escaped # "AnymailRecipientsRefused"
               ELSE idx = j /\ pc \in {"finally", "raised"}

\* the refusal error was raised for a message with a rejected and an invalid
\* recipient and swallowed: send_messages has returned 0 and the Status names
\* both recipients
C27_Witness ==
    /\ Refused(1)
    /\ fail_silently
    /\ pc = "returned"
    /\ num_sent = 0
    /\ anymail_status[1].status = [t |-> "set", s |-> {"rejected", "invalid"}]
    /\ Cardinality(DOMAIN anymail_status[1].recipients) = 2
    /\ anymail_status[1].esp_response = response

\* send_messages has called open(), and open() has created no session: the
\* backend had none and requests.Session() failed
OpenFailed == calls.open = 1 /\ ~created_session /\ session = 0

\* C28: in fail_silently mode, when open() fails to create the session,
\* send_messages raises nothing, transmits nothing and returns 0.
C28_SilentOpenFailure ==
    (fail_silently /\ OpenFailed) =>
        /\ escaped = "none"
        /\ pc # "raised"
        /\ log.transmits = <<>>
        /\ pc = "returned" => num_sent = 0

\* the attempt for message j raised an exception that is not an AnymailError
RaisedOtherError(j) ==
    log.outcome[j] \notin {"pending", "sent", "not_sent"} /\ ~IsAnymailError(log.outcome[j])

\* C29: an exception raised in an attempt that is not derived from AnymailError
\* ends the loop at once, with fail_silently as without it: no later message
\* is attempted, a session the batch created is closed, and send_messages ends
\* by raising the exception (without fail_silently a failure of that close may
\* be raised in its place).
C29_OtherErrorsPropagate ==
    \A j \in Indices : RaisedOtherError(j) =>
        /\ idx = j
        /\ pc \in {"finally", "raised"}
        /\ num_sent = Cardinality({k \in Indices : k < j /\ log.outcome[k] = "sent"})
        /\ \A k \in Indices : k > j =>
              /\ k \notin Attempted
              /\ log.outcome[k] = "pending"
        /\ pc = "finally" => escaped = log.outcome[j]
        /\ pc = "raised" =>
              /\ created_session => calls.close = 1 /\ session = 0
              /\ ~created_session => calls.close = 0
              /\ \/ escaped = log.outcome[j]
                 \/ ~fail_silently /\ created_session /\ escaped = "RequestException"

\* in fail_silently mode the attempt for the first of two messages raised an
\* AttributeError; the session the batch had created was closed and the error
\* has left send_messages
C29_Witness ==
    /\ fail_silently
    /\ Len(batch) = 2
    /\ log.outcome = <<"AttributeError", "pending">>
    /\ created_session
    /\ calls.close = 1
    /\ session = 0
    /\ pc = "raised"
    /\ escaped = "AttributeError"

\* the send defaults supply a recipient in to, cc or bcc
DefaultsSupplyRecipients ==
    \E a \in {"to", "cc", "bcc"} \cap DOMAIN send_defaults : send_defaults[a].items # <<>>

=============================================================================
